---- MODULE Spec2Model ----
(***************************************************************************)
(* PharmaSense prescription core: the rules engine, the formulary service  *)
(* and the prescription orchestrator with its in-memory store and the      *)
(* analytics event sink.                                                   *)
(*                                                                         *)
(* Python strings are modelled as sequences of one-character strings so    *)
(* that lower(), strip(), substring tests and dose parsing are computed,   *)
(* not assumed.  Money is in cents, doses are exact decimals.              *)
(***************************************************************************)
EXTENDS Integers, Sequences, FiniteSets, TLC

(***************************************************************************)
(* Bounds of the exploration                                               *)
(***************************************************************************)
\* number of prescriptions the store may hold
MaxRx == 1
\* number of service calls in one run
MaxCalls == 3

(***************************************************************************)
(* Python values                                                           *)
(***************************************************************************)
\* an optional value: None, or Some(v) whose value is Val(o)
None == <<>>
Some(v) == <<v>>
Val(o) == o[1]

\* str.lower() on the ASCII letters
LowerChar(c) ==
    CASE c = "A" -> "a" [] c = "B" -> "b" [] c = "C" -> "c" [] c = "D" -> "d"
      [] c = "E" -> "e" [] c = "F" -> "f" [] c = "G" -> "g" [] c = "H" -> "h"
      [] c = "I" -> "i" [] c = "J" -> "j" [] c = "K" -> "k" [] c = "L" -> "l"
      [] c = "M" -> "m" [] c = "N" -> "n" [] c = "O" -> "o" [] c = "P" -> "p"
      [] c = "Q" -> "q" [] c = "R" -> "r" [] c = "S" -> "s" [] c = "T" -> "t"
      [] c = "U" -> "u" [] c = "V" -> "v" [] c = "W" -> "w" [] c = "X" -> "x"
      [] c = "Y" -> "y" [] c = "Z" -> "z"
      [] c = "GREEK_CAPITAL_MU" -> "GREEK_MU" [] OTHER -> c

Lower(s) == [i \in 1..Len(s) |-> LowerChar(s[i])]

Whitespace == {" ", "\t", "\n"}

\* str.strip(): drop leading and trailing whitespace
Strip(s) ==
    LET keep == {i \in 1..Len(s) : s[i] \notin Whitespace}
    IN  IF keep = {} THEN <<>>
        ELSE LET lo == CHOOSE i \in keep : \A j \in keep : i <= j
                 hi == CHOOSE i \in keep : \A j \in keep : j <= i
             IN  SubSeq(s, lo, hi)

\* Python's `sub in s`
Contains(s, sub) ==
    \E i \in 0..(Len(s) - Len(sub)) : SubSeq(s, i + 1, i + Len(sub)) = sub

Digits == <<"0", "1", "2", "3", "4", "5", "6", "7", "8", "9">>

RECURSIVE IntStr(_)
\* str(n) for a natural number
IntStr(n) ==
    IF n < 10 THEN <<Digits[n + 1]>>
    ELSE IntStr(n \div 10) \o <<Digits[(n % 10) + 1]>>

\* f"{x:.2f}" for an amount kept in cents
Fmt2f(cents) ==
    IntStr(cents \div 100) \o <<".">> \o
    <<Digits[((cents % 100) \div 10) + 1], Digits[(cents % 10) + 1]>>

DRUG_CLASS_MAP ==
    <<
       [cls |-> <<"p","e","n","i","c","i","l","l","i","n">>,
        members |-> {<<"p","e","n","i","c","i","l","l","i","n">>,
                     <<"p","e","n","i","c","i","l","l","i","n"," ","v">>,
                     <<"p","e","n","i","c","i","l","l","i","n"," ","g">>,
                     <<"a","m","o","x","i","c","i","l","l","i","n">>,
                     <<"a","m","p","i","c","i","l","l","i","n">>,
                     <<"p","i","p","e","r","a","c","i","l","l","i","n">>,
                     <<"n","a","f","c","i","l","l","i","n">>,
                     <<"o","x","a","c","i","l","l","i","n">>,
                     <<"d","i","c","l","o","x","a","c","i","l","l","i","n">>,
                     <<"a","m","o","x","i","c","i","l","l","i","n","/","c","l","a","v","u","l","a","n","a","t","e">>,
                     <<"a","u","g","m","e","n","t","i","n">>}],
       [cls |-> <<"c","e","p","h","a","l","o","s","p","o","r","i","n">>,
        members |-> {<<"c","e","p","h","a","l","e","x","i","n">>,
                     <<"c","e","f","a","z","o","l","i","n">>,
                     <<"c","e","f","t","r","i","a","x","o","n","e">>,
                     <<"c","e","f","d","i","n","i","r">>,
                     <<"c","e","f","u","r","o","x","i","m","e">>,
                     <<"c","e","f","t","a","z","i","d","i","m","e">>,
                     <<"c","e","f","e","p","i","m","e">>}],
       [cls |-> <<"s","u","l","f","o","n","a","m","i","d","e">>,
        members |-> {<<"s","u","l","f","a","m","e","t","h","o","x","a","z","o","l","e">>,
                     <<"s","u","l","f","a","s","a","l","a","z","i","n","e">>,
                     <<"t","r","i","m","e","t","h","o","p","r","i","m","/","s","u","l","f","a","m","e","t","h","o","x","a","z","o","l","e">>,
                     <<"b","a","c","t","r","i","m">>,
                     <<"s","e","p","t","r","a">>,
                     <<"s","u","l","f","a">>}],
       [cls |-> <<"s","t","a","t","i","n">>,
        members |-> {<<"a","t","o","r","v","a","s","t","a","t","i","n">>,
                     <<"s","i","m","v","a","s","t","a","t","i","n">>,
                     <<"r","o","s","u","v","a","s","t","a","t","i","n">>,
                     <<"l","o","v","a","s","t","a","t","i","n">>,
                     <<"p","r","a","v","a","s","t","a","t","i","n">>,
                     <<"f","l","u","v","a","s","t","a","t","i","n">>,
                     <<"p","i","t","a","v","a","s","t","a","t","i","n">>}],
       [cls |-> <<"a","c","e","_","i","n","h","i","b","i","t","o","r">>,
        members |-> {<<"l","i","s","i","n","o","p","r","i","l">>,
                     <<"e","n","a","l","a","p","r","i","l">>,
                     <<"r","a","m","i","p","r","i","l">>,
                     <<"c","a","p","t","o","p","r","i","l">>,
                     <<"b","e","n","a","z","e","p","r","i","l">>,
                     <<"f","o","s","i","n","o","p","r","i","l">>,
                     <<"q","u","i","n","a","p","r","i","l">>,
                     <<"p","e","r","i","n","d","o","p","r","i","l">>}],
       [cls |-> <<"a","r","b">>,
        members |-> {<<"l","o","s","a","r","t","a","n">>,
                     <<"v","a","l","s","a","r","t","a","n">>,
                     <<"i","r","b","e","s","a","r","t","a","n">>,
                     <<"c","a","n","d","e","s","a","r","t","a","n">>,
                     <<"t","e","l","m","i","s","a","r","t","a","n">>,
                     <<"o","l","m","e","s","a","r","t","a","n">>}],
       [cls |-> <<"n","s","a","i","d">>,
        members |-> {<<"i","b","u","p","r","o","f","e","n">>,
                     <<"n","a","p","r","o","x","e","n">>,
                     <<"a","s","p","i","r","i","n">>,
                     <<"d","i","c","l","o","f","e","n","a","c">>,
                     <<"c","e","l","e","c","o","x","i","b">>,
                     <<"m","e","l","o","x","i","c","a","m">>,
                     <<"i","n","d","o","m","e","t","h","a","c","i","n">>,
                     <<"k","e","t","o","r","o","l","a","c">>}],
       [cls |-> <<"s","s","r","i">>,
        members |-> {<<"s","e","r","t","r","a","l","i","n","e">>,
                     <<"f","l","u","o","x","e","t","i","n","e">>,
                     <<"p","a","r","o","x","e","t","i","n","e">>,
                     <<"c","i","t","a","l","o","p","r","a","m">>,
                     <<"e","s","c","i","t","a","l","o","p","r","a","m">>,
                     <<"f","l","u","v","o","x","a","m","i","n","e">>}],
       [cls |-> <<"m","a","o","i">>,
        members |-> {<<"p","h","e","n","e","l","z","i","n","e">>,
                     <<"t","r","a","n","y","l","c","y","p","r","o","m","i","n","e">>,
                     <<"i","s","o","c","a","r","b","o","x","a","z","i","d">>,
                     <<"s","e","l","e","g","i","l","i","n","e">>}],
       [cls |-> <<"b","e","n","z","o","d","i","a","z","e","p","i","n","e">>,
        members |-> {<<"d","i","a","z","e","p","a","m">>,
                     <<"l","o","r","a","z","e","p","a","m">>,
                     <<"a","l","p","r","a","z","o","l","a","m">>,
                     <<"c","l","o","n","a","z","e","p","a","m">>,
                     <<"m","i","d","a","z","o","l","a","m">>,
                     <<"t","e","m","a","z","e","p","a","m">>}],
       [cls |-> <<"o","p","i","o","i","d">>,
        members |-> {<<"m","o","r","p","h","i","n","e">>,
                     <<"o","x","y","c","o","d","o","n","e">>,
                     <<"h","y","d","r","o","c","o","d","o","n","e">>,
                     <<"f","e","n","t","a","n","y","l">>,
                     <<"t","r","a","m","a","d","o","l">>,
                     <<"c","o","d","e","i","n","e">>,
                     <<"m","e","t","h","a","d","o","n","e">>,
                     <<"b","u","p","r","e","n","o","r","p","h","i","n","e">>}],
       [cls |-> <<"f","l","u","o","r","o","q","u","i","n","o","l","o","n","e">>,
        members |-> {<<"c","i","p","r","o","f","l","o","x","a","c","i","n">>,
                     <<"l","e","v","o","f","l","o","x","a","c","i","n">>,
                     <<"m","o","x","i","f","l","o","x","a","c","i","n">>,
                     <<"o","f","l","o","x","a","c","i","n">>}],
       [cls |-> <<"m","a","c","r","o","l","i","d","e">>,
        members |-> {<<"a","z","i","t","h","r","o","m","y","c","i","n">>,
                     <<"e","r","y","t","h","r","o","m","y","c","i","n">>,
                     <<"c","l","a","r","i","t","h","r","o","m","y","c","i","n">>}],
       [cls |-> <<"t","h","i","a","z","i","d","e">>,
        members |-> {<<"h","y","d","r","o","c","h","l","o","r","o","t","h","i","a","z","i","d","e">>,
                     <<"c","h","l","o","r","t","h","a","l","i","d","o","n","e">>,
                     <<"i","n","d","a","p","a","m","i","d","e">>}],
       [cls |-> <<"b","e","t","a","_","b","l","o","c","k","e","r">>,
        members |-> {<<"m","e","t","o","p","r","o","l","o","l">>,
                     <<"a","t","e","n","o","l","o","l">>,
                     <<"p","r","o","p","r","a","n","o","l","o","l">>,
                     <<"c","a","r","v","e","d","i","l","o","l">>,
                     <<"b","i","s","o","p","r","o","l","o","l">>,
                     <<"n","e","b","i","v","o","l","o","l">>}]
    >>

_DRUG_TO_CLASSES(name) ==
    {DRUG_CLASS_MAP[i].cls : i \in {j \in DOMAIN DRUG_CLASS_MAP :
                                      \E m \in DRUG_CLASS_MAP[j].members : Lower(m) = name}}

_get_drug_classes(drug_name) == _DRUG_TO_CLASSES(Strip(Lower(drug_name)))

\* `name in DRUG_CLASS_MAP` and DRUG_CLASS_MAP[name]
ClassKeys == {DRUG_CLASS_MAP[i].cls : i \in DOMAIN DRUG_CLASS_MAP}
ClassMembers(key) ==
    UNION {DRUG_CLASS_MAP[i].members : i \in {j \in DOMAIN DRUG_CLASS_MAP : DRUG_CLASS_MAP[j].cls = key}}

(***************************************************************************)
(* Dose parsing                                                            *)
(***************************************************************************)
IsDigit(c) == \E d \in DOMAIN Digits : Digits[d] = c
DigitVal(c) == (CHOOSE d \in DOMAIN Digits : Digits[d] = c) - 1

\* re.IGNORECASE for the characters of the units of _DOSE_RE: a text matches
\* a unit when it folds to it; letters fold to lower case, and the Greek
\* letter mu, small or capital, folds to the micro sign of the pattern
IgnoreCaseFold(s) ==
    [i \in 1..Len(s) |-> IF s[i] \in {"GREEK_MU", "GREEK_CAPITAL_MU"} THEN "MICRO"
                         ELSE LowerChar(s[i])]

\* the units of _DOSE_RE in the order of its alternation, with _UNIT_TO_MG
\* given in micrograms per unit (mg = 1.0, g = 1000.0, mcg = 0.001 mg)
DoseUnits ==
    << [unit |-> <<"m","g">>,  mcg |-> 1000],
       [unit |-> <<"g">>,   mcg |-> 1000000],
       [unit |-> <<"m","c","g">>, mcg |-> 1],
       [unit |-> <<"MICRO", "g">>, mcg |-> 1],
       [unit |-> <<"u","g">>,  mcg |-> 1] >>

\* end of the longest run of digits that starts at i (i - 1 when s[i] is no digit)
DigitRunEnd(s, i) ==
    LET stop == {j \in i..(Len(s) + 1) : j = Len(s) + 1 \/ ~IsDigit(s[j])}
    IN  (CHOOSE j \in stop : \A k \in stop : j <= k) - 1

\* end of the longest run of whitespace that starts at i
SpaceRunEnd(s, i) ==
    LET stop == {j \in i..(Len(s) + 1) : j = Len(s) + 1 \/ s[j] \notin Whitespace}
    IN  (CHOOSE j \in stop : \A k \in stop : j <= k) - 1

RECURSIVE DigitsToInt(_)
DigitsToInt(ds) ==
    IF ds = <<>> THEN 0
    ELSE 10 * DigitsToInt(SubSeq(ds, 1, Len(ds) - 1)) + DigitVal(ds[Len(ds)])

RECURSIVE Pow10(_)
Pow10(k) == IF k = 0 THEN 1 ELSE 10 * Pow10(k - 1)

\* _DOSE_RE matched at position i: None, or the number (all digits n, k of them
\* after the point), the index of the unit in DoseUnits and the position u0
\* where group 2 starts
DoseMatchAt(s, i) ==
    IF i > Len(s) \/ ~IsDigit(s[i]) THEN None
    ELSE
      LET e1 == DigitRunEnd(s, i)
          hasFrac == e1 + 2 <= Len(s) /\ s[e1 + 1] = "." /\ IsDigit(s[e1 + 2])
          e2 == IF hasFrac THEN DigitRunEnd(s, e1 + 2) ELSE e1
          u0 == SpaceRunEnd(s, e2 + 1) + 1
          fits(u) == u0 + Len(DoseUnits[u].unit) - 1 <= Len(s)
                     /\ IgnoreCaseFold(SubSeq(s, u0, u0 + Len(DoseUnits[u].unit) - 1)) = DoseUnits[u].unit
          us == {u \in DOMAIN DoseUnits : fits(u)}
      IN  IF us = {} THEN None
          ELSE Some([n |-> DigitsToInt(SubSeq(s, i, e1) \o
                                       (IF hasFrac THEN SubSeq(s, e1 + 2, e2) ELSE <<>>)),
                     k |-> IF hasFrac THEN e2 - e1 - 1 ELSE 0,
                     u |-> CHOOSE u \in us : \A v \in us : u <= v,
                     u0 |-> u0])

\* _UNIT_TO_MG.get(unit, 1.0), in micrograms per unit
UnitToMcg(unit) ==
    LET known == {u \in DOMAIN DoseUnits : DoseUnits[u].unit = unit}
    IN  IF known = {} THEN 1000 ELSE DoseUnits[CHOOSE u \in known : TRUE].mcg

\* match.group(2).lower(): the text that matched the unit, in lower case
DoseUnitLower(dosage, m) ==
    Lower(SubSeq(dosage, m.u0, m.u0 + Len(DoseUnits[m.u].unit) - 1))

\* the dose in mg as the exact fraction num/den, or None
_parse_dose_to_mg(dosage) ==
    LET hits == {i \in 1..Len(dosage) : DoseMatchAt(dosage, i) # None}
    IN  IF hits = {} THEN None
        ELSE LET m == Val(DoseMatchAt(dosage, CHOOSE i \in hits : \A j \in hits : i <= j))
             IN  Some([num |-> m.n * UnitToMcg(DoseUnitLower(dosage, m)), den |-> 1000 * Pow10(m.k)])

RECURSIVE FracDigits(_, _)
FracDigits(r, den) ==
    IF r = 0 THEN <<>>
    ELSE <<Digits[((10 * r) \div den) + 1]>> \o FracDigits((10 * r) % den, den)

\* str() of a float whose value is num/den
FloatStr(num, den) ==
    IntStr(num \div den) \o <<".">> \o
    (IF num % den = 0 THEN <<"0">> ELSE FracDigits(num % den, den))

(***************************************************************************)
(* RulesEngineService                                                      *)
(***************************************************************************)
SafetyCheckResult(check_type, status, medication_name, details, blocking, related_drug, severity) ==
    [check_type |-> check_type, status |-> status, medication_name |-> medication_name,
     details |-> details, blocking |-> blocking, related_drug |-> related_drug,
     severity |-> severity]

\* the match by name only, without the drug classes
_is_name_allergy_match(medication, allergy) ==
    LET med_lower == Strip(Lower(medication))
        allergy_lower == Strip(Lower(allergy))
    IN  \/ Contains(med_lower, allergy_lower)
        \/ Contains(allergy_lower, med_lower)

_is_drug_class_allergy_match(medication, allergy) ==
    LET med_lower == Strip(Lower(medication))
        allergy_lower == Strip(Lower(allergy))
        allergy_classes == _get_drug_classes(allergy_lower)
        med_classes == _get_drug_classes(med_lower)
    IN  \/ Contains(med_lower, allergy_lower)
        \/ Contains(allergy_lower, med_lower)
        \/ (allergy_lower \in ClassKeys /\ med_lower \in ClassMembers(allergy_lower))
        \/ allergy_classes \cap med_classes # {}

\* the check that fails for every patient who has an allergy
_check_allergies_any(medication, allergies) ==
    IF allergies # <<>>
    THEN SafetyCheckResult("ALLERGY", "FAIL", medication, <<>>, TRUE, Some(allergies[1]), None)
    ELSE SafetyCheckResult("ALLERGY", "PASS", medication, <<>>, FALSE, None, None)

_check_allergies(medication, allergies) ==
    LET hits == {i \in DOMAIN allergies : _is_drug_class_allergy_match(medication, allergies[i])}
    IN  IF hits # {}
        THEN LET allergy == allergies[CHOOSE i \in hits : \A j \in hits : i <= j]
             IN  SafetyCheckResult("ALLERGY", "FAIL", medication,
                     <<"P","a","t","i","e","n","t"," ","i","s"," ","a","l","l","e","r","g","i","c"," ","t","o"," ","'">> \o allergy \o <<"'",";"," ","'">> \o medication
                         \o <<"'"," ","i","s"," ","c","o","n","t","r","a","i","n","d","i","c","a","t","e","d">>,
                     TRUE, Some(allergy), None)
        ELSE SafetyCheckResult("ALLERGY", "PASS", medication,
                 <<"N","o"," ","a","l","l","e","r","g","y"," ","c","o","n","f","l","i","c","t"," ","d","e","t","e","c","t","e","d">>, FALSE, None, None)

UpperChar(c) ==
    LET up == {C \in {"A","B","C","D","E","F","G","H","I","J","K","L","M","N","O","P","Q",
                      "R","S","T","U","V","W","X","Y","Z"} : LowerChar(C) = c}
    IN  IF up = {} THEN c ELSE CHOOSE C \in up : TRUE

Upper(s) == [i \in 1..Len(s) |-> UpperChar(s[i])]

\* the result that blocks for every severity other than MODERATE
InteractionResultStrict(medication, current_med, ix) ==
    LET severity == Upper(ix.severity)
    IN  IF severity = <<"M","O","D","E","R","A","T","E">>
        THEN SafetyCheckResult("DRUG_INTERACTION", "WARNING", medication,
                 ix.description, FALSE, Some(current_med), Some(severity))
        ELSE SafetyCheckResult("DRUG_INTERACTION", "FAIL", medication,
                 ix.description, TRUE, Some(current_med), Some(severity))

\* the result appended for one interaction record that matches (lines 197-227)
InteractionResult(medication, current_med, ix) ==
    LET severity == Upper(ix.severity)
        tail == <<" ","i","n","t","e","r","a","c","t","i","o","n",":"," ">> \o medication \o <<" ","+"," ">> \o current_med
                    \o <<" ", "EM_DASH", " ">> \o ix.description
    IN  IF severity = <<"S","E","V","E","R","E">>
        THEN SafetyCheckResult("DRUG_INTERACTION", "FAIL", medication,
                 <<"S","E","V","E","R","E">> \o tail, TRUE, Some(current_med), Some(severity))
        ELSE IF severity = <<"M","O","D","E","R","A","T","E">>
        THEN SafetyCheckResult("DRUG_INTERACTION", "WARNING", medication,
                 <<"M","O","D","E","R","A","T","E">> \o tail, FALSE, Some(current_med), Some(severity))
        ELSE SafetyCheckResult("DRUG_INTERACTION", "WARNING", medication,
                 <<"M","I","L","D">> \o tail, FALSE, Some(current_med), Some(severity))

\* the match of a record in the order it is written only
InteractionMatchesForward(med_lower, cur_lower, ix) ==
    Strip(Lower(ix.drug_a)) = med_lower /\ Strip(Lower(ix.drug_b)) = cur_lower

InteractionMatches(med_lower, cur_lower, ix) ==
    LET a == Strip(Lower(ix.drug_a))
        b == Strip(Lower(ix.drug_b))
    IN  (a = med_lower /\ b = cur_lower) \/ (a = cur_lower /\ b = med_lower)

RECURSIVE InteractionScan(_, _, _, _, _)
\* the nested loops of _check_interactions from (current medication c, record x) on
InteractionScan(medication, current_medications, interactions, c, x) ==
    IF c > Len(current_medications) THEN <<>>
    ELSE IF x > Len(interactions)
    THEN InteractionScan(medication, current_medications, interactions, c + 1, 1)
    ELSE (IF InteractionMatches(Strip(Lower(medication)),
                                Strip(Lower(current_medications[c])), interactions[x])
          THEN <<InteractionResult(medication, current_medications[c], interactions[x])>>
          ELSE <<>>)
         \o InteractionScan(medication, current_medications, interactions, c, x + 1)

\* a check that reports the first matching record only
_check_interactions_first(medication, current_medications, interactions) ==
    LET results == InteractionScan(medication, current_medications, interactions, 1, 1)
    IN  IF results = <<>>
        THEN <<SafetyCheckResult("DRUG_INTERACTION", "PASS", medication,
                   <<"N","o"," ","d","r","u","g"," ","i","n","t","e","r","a","c","t","i","o","n","s"," ","f","o","u","n","d">>, FALSE, None, None)>>
        ELSE <<results[1]>>

_check_interactions(medication, current_medications, interactions) ==
    LET results == InteractionScan(medication, current_medications, interactions, 1, 1)
    IN  IF results = <<>>
        THEN <<SafetyCheckResult("DRUG_INTERACTION", "PASS", medication,
                   <<"N","o"," ","d","r","u","g"," ","i","n","t","e","r","a","c","t","i","o","n","s"," ","f","o","u","n","d">>, FALSE, None, None)>>
        ELSE results

\* a dose check that never blocks: FAIL above 2550 mg, WARNING otherwise
DoseRangeCheckLenient(medication, dosage, dose_ranges, parsed) ==
    SafetyCheckResult("DOSE_RANGE",
        IF parsed # None /\ Val(parsed).num > 2550 * Val(parsed).den THEN "FAIL" ELSE "WARNING",
        medication, dosage, FALSE, None, None)

\* the body of _check_dose_range once the dosage is parsed (lines 252-306)
DoseRangeCheck(medication, dosage, dose_ranges, parsed) ==
    LET dose_mg == Val(parsed)
        med_lower == Strip(Lower(medication))
        hits == {i \in DOMAIN dose_ranges :
                    Strip(Lower(dose_ranges[i].medication_name)) = med_lower}
    IN  IF parsed = None
        THEN SafetyCheckResult("DOSE_RANGE", "WARNING", medication,
                 <<"C","o","u","l","d"," ","n","o","t"," ","p","a","r","s","e"," ","d","o","s","a","g","e"," ","'">> \o dosage \o <<"'"," ">> \o <<"EM_DASH">>
                     \o <<" ","m","a","n","u","a","l"," ","r","e","v","i","e","w"," ","r","e","c","o","m","m","e","n","d","e","d">>,
                 FALSE, None, None)
        ELSE IF hits = {}
        THEN SafetyCheckResult("DOSE_RANGE", "PASS", medication,
                 <<"N","o"," ","d","o","s","e"," ","r","a","n","g","e"," ","r","e","f","e","r","e","n","c","e"," ","f","o","u","n","d"," ","f","o","r"," ","'">> \o medication \o <<"'"," ">>
                     \o <<"EM_DASH">> \o <<" ","s","k","i","p","p","i","n","g"," ","c","h","e","c","k">>,
                 FALSE, None, None)
        ELSE
          LET matched_range == dose_ranges[CHOOSE i \in hits : \A j \in hits : i <= j]
              shown == FloatStr(dose_mg.num, dose_mg.den)
              lo == FloatStr(matched_range.min_dose_mg, 1)
              hi == FloatStr(matched_range.max_dose_mg, 1)
          IN  IF dose_mg.num > matched_range.max_dose_mg * dose_mg.den
              THEN SafetyCheckResult("DOSE_RANGE", "FAIL", medication,
                       <<"D","o","s","e"," ">> \o shown \o <<"m","g"," ","e","x","c","e","e","d","s"," ","m","a","x","i","m","u","m"," ">> \o hi \o <<"m","g"," ","f","o","r"," ">>
                           \o medication,
                       TRUE, None, None)
              ELSE IF dose_mg.num < matched_range.min_dose_mg * dose_mg.den
              THEN SafetyCheckResult("DOSE_RANGE", "WARNING", medication,
                       <<"D","o","s","e"," ">> \o shown \o <<"m","g"," ","i","s"," ","b","e","l","o","w"," ","m","i","n","i","m","u","m"," ">> \o lo \o <<"m","g"," ","f","o","r"," ">>
                           \o medication \o <<" ", "EM_DASH">> \o <<" ","m","a","y"," ","b","e"," ","s","u","b","-","t","h","e","r","a","p","e","u","t","i","c">>,
                       FALSE, None, None)
              ELSE SafetyCheckResult("DOSE_RANGE", "PASS", medication,
                       <<"D","o","s","e"," ">> \o shown \o <<"m","g"," ","i","s"," ","w","i","t","h","i","n"," ","r","a","n","g","e"," ","(">> \o lo \o <<"EN_DASH">>
                           \o hi \o <<"m","g",")">>,
                       FALSE, None, None)

_check_dose_range(medication, dosage, dose_ranges) ==
    DoseRangeCheck(medication, dosage, dose_ranges, _parse_dose_to_mg(dosage))

\* the first current medication at which the loop of _check_duplicate_therapy returns
DuplicateHit(med_lower, current_medications) ==
    {i \in DOMAIN current_medications :
        \/ Strip(Lower(current_medications[i])) = med_lower
        \/ _get_drug_classes(med_lower) \cap _get_drug_classes(Strip(Lower(current_medications[i]))) # {}}

\* the results _check_duplicate_therapy can give: next(iter(shared)) takes an
\* unspecified element of a set, so each shared class is a possible result
_check_duplicate_therapy(medication, current_medications) ==
    LET med_lower == Strip(Lower(medication))
        hits == DuplicateHit(med_lower, current_medications)
    IN  IF hits = {}
        THEN {SafetyCheckResult("DUPLICATE_THERAPY", "PASS", medication,
                  <<"N","o"," ","d","u","p","l","i","c","a","t","e"," ","t","h","e","r","a","p","y"," ","d","e","t","e","c","t","e","d">>, FALSE, None, None)}
        ELSE
          LET current == current_medications[CHOOSE i \in hits : \A j \in hits : i <= j]
              cur_lower == Strip(Lower(current))
              shared == _get_drug_classes(med_lower) \cap _get_drug_classes(cur_lower)
          IN  IF cur_lower = med_lower
              THEN {SafetyCheckResult("DUPLICATE_THERAPY", "WARNING", medication,
                        <<"P","a","t","i","e","n","t"," ","a","l","r","e","a","d","y"," ","t","a","k","i","n","g"," ">> \o current \o <<" ", "EM_DASH">>
                            \o <<" ","d","u","p","l","i","c","a","t","e"," ","p","r","e","s","c","r","i","p","t","i","o","n">>,
                        FALSE, Some(current), None)}
              ELSE {SafetyCheckResult("DUPLICATE_THERAPY", "WARNING", medication,
                        <<"P","a","t","i","e","n","t"," ","a","l","r","e","a","d","y"," ","t","a","k","i","n","g"," ">> \o current \o <<" ","(","s","a","m","e"," ","c","l","a","s","s",":"," ">>
                            \o class_name \o <<")"," ">> \o <<"EM_DASH">>
                            \o <<" ","p","o","s","s","i","b","l","e"," ","d","u","p","l","i","c","a","t","e"," ","t","h","e","r","a","p","y">>,
                        FALSE, Some(current), None) : class_name \in shared}

\* the output whose overall status ignores the warnings
RulesEngineOutputNoWarning(medication_name, checks) ==
    LET has_blocking == \E i \in DOMAIN checks : checks[i].blocking
    IN  [medication_name |-> medication_name,
         checks |-> checks,
         has_blocking_failure |-> has_blocking,
         overall_status |-> IF has_blocking THEN "BLOCKED" ELSE "PASS"]

RulesEngineOutput(medication_name, checks) ==
    LET has_blocking == \E i \in DOMAIN checks : checks[i].blocking
        has_warning == \E i \in DOMAIN checks : checks[i].status = "WARNING"
    IN  [medication_name |-> medication_name,
         checks |-> checks,
         has_blocking_failure |-> has_blocking,
         overall_status |-> IF has_blocking THEN "BLOCKED"
                            ELSE IF has_warning THEN "WARNING" ELSE "PASS"]

\* RulesEngineService.evaluate: the set of outputs it can return for one input
evaluate(input_data) ==
    {RulesEngineOutput(input_data.medication_name,
         <<_check_allergies(input_data.medication_name, input_data.patient_allergies)>>
         \o _check_interactions(input_data.medication_name, input_data.current_medications,
                                input_data.drug_interactions)
         \o <<_check_dose_range(input_data.medication_name, input_data.dosage,
                                input_data.dose_ranges)>>
         \o <<dup>>)
     : dup \in _check_duplicate_therapy(input_data.medication_name,
                                        input_data.current_medications)}

(***************************************************************************)
(* FormularyService                                                        *)
(***************************************************************************)
TIER_LABELS ==
    << <<"P","r","e","f","e","r","r","e","d"," ","G","e","n","e","r","i","c">>, <<"N","o","n","-","P","r","e","f","e","r","r","e","d"," ","G","e","n","e","r","i","c">>, <<"P","r","e","f","e","r","r","e","d"," ","B","r","a","n","d">>,
       <<"N","o","n","-","P","r","e","f","e","r","r","e","d"," ","B","r","a","n","d">>, <<"S","p","e","c","i","a","l","t","y">> >>

\* TIER_LABELS.get(tier)
TierLabelGet(tier) == IF tier \in DOMAIN TIER_LABELS THEN Some(TIER_LABELS[tier]) ELSE None

\* a result that counts every matched row as covered
CoverageResultMatched(medication_name, status, tier, tier_label, copay, is_covered, requires_prior_auth, plan_name, notes) ==
    [medication_name |-> medication_name, status |-> status, tier |-> tier,
     tier_label |-> tier_label, copay |-> copay, is_covered |-> status # "UNKNOWN",
     requires_prior_auth |-> requires_prior_auth, plan_name |-> plan_name, notes |-> notes]

CoverageResult(medication_name, status, tier, tier_label, copay, is_covered, requires_prior_auth, plan_name, notes) ==
    [medication_name |-> medication_name, status |-> status, tier |-> tier,
     tier_label |-> tier_label, copay |-> copay, is_covered |-> is_covered,
     requires_prior_auth |-> requires_prior_auth, plan_name |-> plan_name, notes |-> notes]

\* Python's `a or b` on strings
StrOr(a, b) == IF a # "" THEN a ELSE b

lookup_coverage(medication_name, formulary, generic_name, plan_name) ==
    LET med_lower == Strip(Lower(medication_name))
        gen_lower == Strip(Lower(generic_name))
        hits == {i \in DOMAIN formulary :
                    \/ Strip(Lower(formulary[i].drug_name)) = med_lower
                    \/ (gen_lower # <<>> /\ Strip(Lower(formulary[i].generic_name)) = gen_lower)}
    IN  IF hits = {}
        THEN CoverageResult(medication_name, "UNKNOWN", None, None, None, FALSE, FALSE,
                            plan_name, "Medication not found in formulary")
        ELSE
          LET match == formulary[CHOOSE i \in hits : \A j \in hits : i <= j]
          IN  IF ~match.is_covered
              THEN CoverageResult(medication_name, "NOT_COVERED", Some(match.tier),
                       TierLabelGet(match.tier), None, FALSE, match.requires_prior_auth,
                       StrOr(match.plan_name, plan_name), match.notes)
              ELSE IF match.requires_prior_auth
              THEN CoverageResult(medication_name, "PRIOR_AUTH_REQUIRED", Some(match.tier),
                       TierLabelGet(match.tier), Some(match.copay), TRUE, TRUE,
                       StrOr(match.plan_name, plan_name), match.notes)
              ELSE CoverageResult(medication_name, "COVERED", Some(match.tier),
                       TierLabelGet(match.tier), Some(match.copay), TRUE, FALSE,
                       StrOr(match.plan_name, plan_name), match.notes)

\* a key of the copay alone
KeyLessCopay(e, f) == e.copay < f.copay

\* key=lambda e: (e.tier, e.copay), compared as Python compares tuples
KeyLess(e, f) == e.tier < f.tier \/ (e.tier = f.tier /\ e.copay < f.copay)

RECURSIVE StableSort(_)
\* list.sort(key=...): ascending, equal keys keep their order
StableSort(es) ==
    IF es = <<>> THEN <<>>
    ELSE LET least == {i \in DOMAIN es : \A j \in DOMAIN es : ~KeyLess(es[j], es[i])}
             m == CHOOSE i \in least : \A j \in least : i <= j
         IN  <<es[m]>> \o StableSort([i \in 1..(Len(es) - 1) |-> IF i < m THEN es[i] ELSE es[i + 1]])

AlternativeSuggestion(entry) ==
    [drug_name |-> entry.drug_name,
     generic_name |-> entry.generic_name,
     tier |-> entry.tier,
     copay |-> entry.copay,
     reason |-> (IF entry.tier \in DOMAIN TIER_LABELS THEN TIER_LABELS[entry.tier]
                 ELSE <<"T","i","e","r"," ">> \o IntStr(entry.tier))
                \o <<","," ","e","s","t","i","m","a","t","e","d"," ","c","o","p","a","y"," ","$">> \o Fmt2f(entry.copay)]

find_alternatives(medication_name, formulary, plan_name, max_results) ==
    LET med_lower == Strip(Lower(medication_name))
        covered == SelectSeq(formulary,
                       LAMBDA e : /\ e.is_covered
                                  /\ Strip(Lower(e.drug_name)) # med_lower
                                  /\ Strip(Lower(e.generic_name)) # med_lower)
        sorted == StableSort(covered)
        \* covered[:max_results]: a negative bound counts from the end
        n == IF max_results < 0
             THEN (IF Len(sorted) + max_results < 0 THEN 0 ELSE Len(sorted) + max_results)
             ELSE (IF Len(sorted) < max_results THEN Len(sorted) ELSE max_results)
    IN  [i \in 1..n |-> AlternativeSuggestion(sorted[i])]

(***************************************************************************)
(* Inputs: the reference tables and requests of the service tests, and     *)
(* the responses the AI provider can give                                  *)
(***************************************************************************)
demo_formulary ==
    << [drug_name |-> <<"M","e","t","f","o","r","m","i","n">>, generic_name |-> <<"m","e","t","f","o","r","m","i","n">>, plan_name |-> "DEMO_PLAN",
        tier |-> 1, copay |-> 500, is_covered |-> TRUE, requires_prior_auth |-> FALSE, notes |-> ""],
       [drug_name |-> <<"L","i","s","i","n","o","p","r","i","l">>, generic_name |-> <<"l","i","s","i","n","o","p","r","i","l">>, plan_name |-> "DEMO_PLAN",
        tier |-> 1, copay |-> 1000, is_covered |-> TRUE, requires_prior_auth |-> FALSE, notes |-> ""],
       [drug_name |-> <<"A","m","o","x","i","c","i","l","l","i","n">>, generic_name |-> <<"a","m","o","x","i","c","i","l","l","i","n">>, plan_name |-> "DEMO_PLAN",
        tier |-> 1, copay |-> 800, is_covered |-> TRUE, requires_prior_auth |-> FALSE, notes |-> ""] >>

interactions ==
    << [drug_a |-> <<"W","a","r","f","a","r","i","n">>, drug_b |-> <<"A","s","p","i","r","i","n">>, severity |-> <<"S","E","V","E","R","E">>,
        description |-> <<"I","n","c","r","e","a","s","e","d"," ","r","i","s","k"," ","o","f"," ","b","l","e","e","d","i","n","g">>] >>

dose_ranges ==
    << [medication_name |-> <<"M","e","t","f","o","r","m","i","n">>, min_dose_mg |-> 500, max_dose_mg |-> 2550],
       [medication_name |-> <<"L","i","s","i","n","o","p","r","i","l">>, min_dose_mg |-> 5, max_dose_mg |-> 40] >>

\* _make_request: a patient without allergies or medications, and one who is
\* allergic to penicillin and takes warfarin
Requests ==
    { [visit_id |-> "visit-1", patient_id |-> "patient-1",
       allergies |-> <<>>, current_medications |-> <<>>],
      [visit_id |-> "visit-2", patient_id |-> "patient-2",
       allergies |-> << <<"P","e","n","i","c","i","l","l","i","n">> >>,
       current_medications |-> << <<"W","a","r","f","a","r","i","n">> >>] }

\* schemas.gemini.RecommendationItem as parsed from the provider's JSON
GeminiRecItem(medication, dosage, frequency, duration, rationale) ==
    [medication |-> medication, dosage |-> dosage, frequency |-> frequency,
     duration |-> duration, rationale |-> rationale]

Metformin500 == GeminiRecItem(<<"M","e","t","f","o","r","m","i","n">>, <<"5","0","0","m","g">>, "twice daily", "ongoing", "T2DM")
Amoxicillin500 == GeminiRecItem(<<"A","m","o","x","i","c","i","l","l","i","n">>, <<"5","0","0","m","g">>, "three times daily", "7 days", "Infection")
Aspirin81 == GeminiRecItem(<<"A","s","p","i","r","i","n">>, <<"8","1","m","g">>, "once daily", "ongoing", "Cardioprotective")
BlankMedication == GeminiRecItem(<<" "," ">>, <<"5","0","0","m","g">>, "once daily", "ongoing", "n/a")

\* one HTTP response of the provider: a safety block, a body that is no JSON,
\* or JSON with a recommendations list
GeminiResponse(blockReason, json_ok, recommendations) ==
    [blockReason |-> blockReason, json_ok |-> json_ok, recommendations |-> recommendations]

Responses ==
    { GeminiResponse(None, TRUE, <<Metformin500>>),
      GeminiResponse(None, TRUE, <<Amoxicillin500>>),
      GeminiResponse(None, TRUE, <<Aspirin81>>),
      GeminiResponse(None, TRUE, <<Metformin500, Amoxicillin500>>),
      GeminiResponse(None, TRUE, <<>>),
      GeminiResponse(None, TRUE, <<BlankMedication>>),
      GeminiResponse(None, FALSE, <<>>),
      GeminiResponse(Some("SAFETY"), TRUE, <<>>) }

(***************************************************************************)
(* Exceptions                                                              *)
(***************************************************************************)
\* ValidationError.__init__(self, message, field=None) called with nargs
\* positional arguments and the keyword arguments kwargs: the type of the
\* exception the raise statement ends with
ValidationError(nargs, kwargs) ==
    IF /\ nargs <= 2
       /\ kwargs \subseteq {"message", "field"}
       /\ (nargs >= 1 \/ "message" \in kwargs)
       /\ ~(nargs >= 1 /\ "message" \in kwargs)
       /\ ~(nargs >= 2 /\ "field" \in kwargs)
    THEN "ValidationError"
    ELSE "TypeError"

(***************************************************************************)
(* GeminiService.generate_recommendations                                  *)
(***************************************************************************)
MAX_RETRIES == 3

\* GeminiRecommendationOutput.model_validate: recommendations has min_length=1
model_validate(recommendations) == Len(recommendations) >= 1

\* the semantic validation accepting every parsed output
_validate_output_lenient(recommendations) == None

\* GeminiService._validate_output for a GeminiRecommendationOutput: None, or
\* the type of the exception raised
_validate_output(recommendations) ==
    IF recommendations = <<>>
       \/ \E i \in DOMAIN recommendations :
              \/ Strip(recommendations[i].medication) = <<>>
              \/ Strip(recommendations[i].dosage) = <<>>
    THEN Some(ValidationError(3, {}))
    ELSE None

\* one pass of the body of the retry loop: "return", "retry", or the type of
\* the exception that leaves the loop
Attempt(resp) ==
    IF resp.blockReason # None THEN "SafetyBlockError"
    ELSE IF ~resp.json_ok THEN "retry"
    ELSE IF ~model_validate(resp.recommendations) THEN "retry"
    ELSE LET bad == _validate_output(resp.recommendations)
         IN  IF bad = None THEN "return"
             ELSE IF Val(bad) = "ValidationError" THEN "retry"
             ELSE Val(bad)

RECURSIVE RetryFrom(_, _)
RetryFrom(resps, attempt) ==
    IF attempt > MAX_RETRIES \/ attempt > Len(resps)
    THEN [exc |-> Some("RuntimeError"), recommendations |-> <<>>]
    ELSE LET how == Attempt(resps[attempt])
         IN  IF how = "return"
             THEN [exc |-> None, recommendations |-> resps[attempt].recommendations]
             ELSE IF how = "retry" THEN RetryFrom(resps, attempt + 1)
             ELSE [exc |-> Some(how), recommendations |-> <<>>]

\* the exception that ends the call, or the validated output
_call_with_retry(resps) == RetryFrom(resps, 1)

\* what the provider can answer during one call: the responses the loop
\* consumes, one per attempt
AIBehaviours ==
    {t \in UNION {[1..n -> Responses] : n \in 1..MAX_RETRIES} :
        /\ \A i \in 1..(Len(t) - 1) : Attempt(t[i]) = "retry"
        /\ Len(t) < MAX_RETRIES => Attempt(t[Len(t)]) # "retry"}

(***************************************************************************)
(* AnalyticsService, used without a database session                       *)
(***************************************************************************)
\* the write made inside emit instead of in a task: an unreachable sink
\* raises into the caller
_schedule_supabase_write_inline(an, entry) ==
    IF an.up THEN an ELSE [an EXCEPT !.raised = Some("ConnectionError")]

\* _schedule_supabase_write inside a request handler, where a loop is running:
\* the write becomes a task of the loop and nothing is raised
_schedule_supabase_write(an, entry) == [an EXCEPT !.tasks = Append(@, entry)]

\* _write_to_supabase: the insert of one entry while the sink is up or down;
\* every exception of the insert is caught and logged
_write_to_supabase(up, entry) ==
    IF up
    THEN [ok |-> TRUE,
          row |-> Some([event_type |-> entry.event_type, event_data |-> entry.event_data])]
    ELSE [ok |-> FALSE, row |-> None]

\* AnalyticsService.emit on the analytics state an = [buffer, global, tasks,
\* up, raised]: the buffer of this service object, the module-level buffer,
\* the tasks of the loop, whether the sink is reachable, and the exception
\* that leaves emit (None when it returns)
emit(an, event_type, data, now) ==
    LET entry == [event_type |-> event_type, event_data |-> data, created_at |-> now]
    IN  _schedule_supabase_write(
            [an EXCEPT !.global = Append(@, entry), !.buffer = Append(@, entry)], entry)

RECURSIVE emit_each(_, _, _, _)
\* emit called once per element of datas, in order; an exception ends it
emit_each(an, event_type, datas, now) ==
    IF datas = <<>> \/ an.raised # None THEN an
    ELSE emit_each(emit(an, event_type, datas[1], now), event_type, Tail(datas), now)

(***************************************************************************)
(* PrescriptionService                                                     *)
(***************************************************************************)
\* the warnings list of step 5: the details of every FAIL or WARNING check
WarningDetails(checks) ==
    LET kept == SelectSeq(checks, LAMBDA c : c.status \in {"FAIL", "WARNING"})
    IN  [i \in DOMAIN kept |-> kept[i].details]

\* the details of every blocking check, one OPTION_BLOCKED event each
BlockingDetails(checks) ==
    LET kept == SelectSeq(checks, LAMBDA c : c.blocking)
    IN  [i \in DOMAIN kept |-> kept[i].details]

\* steps 3 to 5 of the loop of generate_recommendations for one candidate whose
\* rules engine output is rules_out
AnnotateItem(request, gem_item, rules_out, formulary) ==
    LET coverage == lookup_coverage(gem_item.medication, formulary, <<>>, "")
        alts == IF coverage.status # "COVERED"
                THEN find_alternatives(gem_item.medication, formulary, "", 3)
                ELSE <<>>
        warnings == WarningDetails(rules_out.checks)
        reasons == BlockingDetails(rules_out.checks)
    IN  [item |->
            [primary |->
                [drug_name |-> gem_item.medication,
                 generic_name |-> gem_item.medication,
                 dosage |-> gem_item.dosage,
                 frequency |-> gem_item.frequency,
                 duration |-> gem_item.duration,
                 route |-> "oral",
                 rationale |-> gem_item.rationale,
                 tier |-> coverage.tier,
                 estimated_copay |-> coverage.copay,
                 is_covered |-> coverage.is_covered,
                 requires_prior_auth |-> coverage.requires_prior_auth],
             alternatives |->
                [i \in DOMAIN alts |->
                    [drug_name |-> alts[i].drug_name,
                     generic_name |-> alts[i].generic_name,
                     dosage |-> <<>>,
                     reason |-> alts[i].reason,
                     tier |-> Some(alts[i].tier),
                     estimated_copay |-> Some(alts[i].copay)]],
             warnings |-> warnings],
         is_blocked |-> rules_out.has_blocking_failure,
         blocked_events |->
            IF rules_out.has_blocking_failure
            THEN [i \in DOMAIN reasons |->
                     [visitId |-> request.visit_id,
                      medication |-> gem_item.medication,
                      reason |-> reasons[i]]]
            ELSE <<>>]

RulesEngineInput(request, gem_item, drug_interactions, ranges) ==
    [medication_name |-> gem_item.medication,
     dosage |-> gem_item.dosage,
     patient_allergies |-> request.allergies,
     current_medications |-> request.current_medications,
     drug_interactions |-> drug_interactions,
     dose_ranges |-> ranges]

RECURSIVE AnnotateAll(_, _, _, _, _)
\* the loop over gemini_out.recommendations: every list of annotated items it
\* can build (one list unless the rules engine has several possible outputs)
AnnotateAll(request, recommendations, formulary, drug_interactions, ranges) ==
    IF recommendations = <<>> THEN {<<>>}
    ELSE {<<AnnotateItem(request, recommendations[1], out, formulary)>> \o rest :
             out \in evaluate(RulesEngineInput(request, recommendations[1],
                                               drug_interactions, ranges)),
             rest \in AnnotateAll(request, Tail(recommendations), formulary,
                                  drug_interactions, ranges)}

RECURSIVE Flatten(_)
Flatten(seqs) == IF seqs = <<>> THEN <<>> ELSE seqs[1] \o Flatten(Tail(seqs))

RECURSIVE SumOf(_)
SumOf(ns) == IF ns = <<>> THEN 0 ELSE ns[1] + SumOf(Tail(ns))

\* the prescription dict that keeps the first annotated item only
NewPrescriptionFirstItem(rx_id, request, annotated, now) ==
    [id |-> rx_id,
     visit_id |-> request.visit_id,
     patient_id |-> request.patient_id,
     status |-> "recommended",
     items |-> <<annotated[1].item>>,
     rules_results |-> <<[medication |-> annotated[1].item.primary.drug_name,
                          blocked |-> annotated[1].is_blocked]>>,
     created_at |-> now,
     approved_at |-> None,
     rejection_reason |-> None]

\* the prescription dict persisted in step 6
NewPrescription(rx_id, request, annotated, now) ==
    [id |-> rx_id,
     visit_id |-> request.visit_id,
     patient_id |-> request.patient_id,
     status |-> "recommended",
     items |-> [i \in DOMAIN annotated |-> annotated[i].item],
     rules_results |-> [i \in DOMAIN annotated |->
                           [medication |-> annotated[i].item.primary.drug_name,
                            blocked |-> annotated[i].is_blocked]],
     created_at |-> now,
     approved_at |-> None,
     rejection_reason |-> None]

\* a payload whose warningCount leaves out the warnings of blocked candidates
GeneratedEventUnblocked(request, annotated) ==
    [visitId |-> request.visit_id,
     totalOptions |-> Len(annotated),
     blockedCount |-> Cardinality({i \in DOMAIN annotated : annotated[i].is_blocked}),
     warningCount |-> SumOf([i \in DOMAIN annotated |->
                                IF annotated[i].is_blocked THEN 0
                                ELSE Len(annotated[i].item.warnings)])]

\* the payload of the RECOMMENDATION_GENERATED event of step 7
GeneratedEvent(request, annotated) ==
    [visitId |-> request.visit_id,
     totalOptions |-> Len(annotated),
     blockedCount |-> Cardinality({i \in DOMAIN annotated : annotated[i].is_blocked}),
     warningCount |-> SumOf([i \in DOMAIN annotated |-> Len(annotated[i].item.warnings)])]

\* the approval guard reading only the flag of the first item
BlockedReasonFirstItem(rx) ==
    IF rx.rules_results # <<>> /\ rx.rules_results[1].blocked
    THEN Some(<<"C","a","n","n","o","t"," ","a","p","p","r","o","v","e">>)
    ELSE None

\* the approval guard letting every confirmed approval through
BlockedReasonWaived(rx) == None

\* the approval guard of approve_prescription (lines 385-399): None, or the
\* reason of the SafetyBlockError it raises
BlockedReason(rx) ==
    IF \E i \in DOMAIN rx.rules_results : rx.rules_results[i].blocked
    THEN LET warned == {i \in DOMAIN rx.items : rx.items[i].warnings # <<>>}
         IN  IF warned # {}
             THEN Some(<<"C","a","n","n","o","t"," ","a","p","p","r","o","v","e"," ","b","l","o","c","k","e","d"," ","p","r","e","s","c","r","i","p","t","i","o","n",":"," ">>
                       \o rx.items[CHOOSE i \in warned : \A j \in warned : i <= j].warnings[1])
             ELSE Some(<<"C","a","n","n","o","t"," ","a","p","p","r","o","v","e"," ","p","r","e","s","c","r","i","p","t","i","o","n"," ","w","i","t","h"," ","b","l","o","c","k","i","n","g"," ","s","a","f","e","t","y"," ","f","a","i","l","u","r","e","s">>)
    ELSE None

\* a bucket choice that tests the interaction keyword before the allergy one
WarningBucketInteractionFirst(w) ==
    LET w_lower == Lower(w)
    IN  IF Contains(w_lower, <<"i","n","t","e","r","a","c","t","i","o","n">>) THEN "interaction"
        ELSE IF Contains(w_lower, <<"a","l","l","e","r","g">>) THEN "allergy"
        ELSE IF Contains(w_lower, <<"d","o","s","e">>) THEN "dose"
        ELSE "none"

\* the bucket of one warning in _build_receipt (lines 587-597)
WarningBucket(w) ==
    LET w_lower == Lower(w)
    IN  IF Contains(w_lower, <<"a","l","l","e","r","g">>) THEN "allergy"
        ELSE IF Contains(w_lower, <<"i","n","t","e","r","a","c","t","i","o","n">>) THEN "interaction"
        ELSE IF Contains(w_lower, <<"d","o","s","e">>) THEN "dose"
        ELSE "none"

\* the warnings of all items, in item order, that fall in bucket
FlagsOf(items, bucket) ==
    SelectSeq(Flatten([i \in DOMAIN items |-> items[i].warnings]),
              LAMBDA w : WarningBucket(w) = bucket)

ReceiptSafetyCheck(w) ==
    [check_type |-> IF WarningBucket(w) # "none" THEN "WARNING" ELSE "INFO",
     passed |-> WarningBucket(w) = "none",
     severity |-> "WARNING",
     message |-> w]

\* uuid.uuid4(): the value of the draw after n earlier draws, fresh each time
uuid4(n) == <<"uuid", n + 1>>

\* PrescriptionService._build_receipt with the keyword defaults of
\* approve_prescription, as PrescriptionReceipt keeps its declared fields
_build_receipt(prescription_id, rx, receipt_id, clinician_id, now) ==
    LET items == rx.items
        all_warnings == Flatten([i \in DOMAIN items |-> items[i].warnings])
        allergy_flags == FlagsOf(items, "allergy")
        interaction_flags == FlagsOf(items, "interaction")
        dose_flags == FlagsOf(items, "dose")
        paid == SelectSeq(items, LAMBDA it : it.primary.estimated_copay # None)
        prior == SelectSeq(items, LAMBDA it : it.primary.requires_prior_auth)
    IN  [receipt_id |-> receipt_id,
         prescription_id |-> prescription_id,
         visit_id |-> rx.visit_id,
         patient_id |-> rx.patient_id,
         clinician_id |-> clinician_id,
         patient_name |-> "Patient",
         clinician_name |-> "Clinician",
         issued_at |-> now,
         status |-> "approved",
         drugs |-> [i \in DOMAIN items |->
                      [drug_name |-> items[i].primary.drug_name,
                       generic_name |-> items[i].primary.generic_name,
                       dosage |-> items[i].primary.dosage,
                       frequency |-> items[i].primary.frequency,
                       duration |-> items[i].primary.duration,
                       route |-> "oral",
                       tier |-> items[i].primary.tier,
                       tier_label |-> None,
                       copay |-> items[i].primary.estimated_copay,
                       is_covered |-> items[i].primary.is_covered,
                       requires_prior_auth |-> items[i].primary.requires_prior_auth]],
         safety |-> [all_passed |-> allergy_flags = <<>> /\ interaction_flags = <<>>
                                    /\ dose_flags = <<>>,
                     checks |-> [i \in DOMAIN all_warnings |-> ReceiptSafetyCheck(all_warnings[i])],
                     allergy_flags |-> allergy_flags,
                     interaction_flags |-> interaction_flags,
                     dose_range_flags |-> dose_flags],
         coverage |-> [plan_name |-> "",
                       member_id |-> "",
                       total_copay |-> SumOf([i \in DOMAIN paid |-> Val(paid[i].primary.estimated_copay)]),
                       items_covered |-> Cardinality({i \in DOMAIN items : items[i].primary.is_covered}),
                       items_not_covered |-> Cardinality({i \in DOMAIN items : ~items[i].primary.is_covered}),
                       prior_auth_required |-> [i \in DOMAIN prior |-> prior[i].primary.drug_name]],
         alternatives |-> Flatten([i \in DOMAIN items |->
                        [j \in DOMAIN items[i].alternatives |->
                            [drug_name |-> items[i].alternatives[j].drug_name,
                             copay |-> items[i].alternatives[j].estimated_copay,
                             coverage_status |-> "UNKNOWN",
                             reason |-> items[i].alternatives[j].reason]]]),
         reasoning |-> None,
         notes |-> None,
         signature_hash |-> None]

\* the OPTION_APPROVED payload carrying the copay of the first drug only
ApprovedEventFirstCopay(prescription_id, receipt) ==
    [prescriptionId |-> prescription_id,
     medication |-> IF receipt.drugs # <<>> THEN receipt.drugs[1].drug_name ELSE <<>>,
     copay |-> IF receipt.drugs # <<>> /\ receipt.drugs[1].copay # None
               THEN Val(receipt.drugs[1].copay) ELSE 0,
     visitId |-> receipt.visit_id]

\* the payload of the OPTION_APPROVED event
ApprovedEvent(prescription_id, receipt) ==
    [prescriptionId |-> prescription_id,
     medication |-> IF receipt.drugs # <<>> THEN receipt.drugs[1].drug_name ELSE <<>>,
     copay |-> receipt.coverage.total_copay,
     visitId |-> receipt.visit_id]

\* the payload of the OPTION_REJECTED event
RejectedEvent(prescription_id, reason) ==
    [prescriptionId |-> prescription_id, medication |-> <<>>, reason |-> reason]

RejectionReasons == {"Patient declined"}

\* what the last response the retry loop consumed was
ResponseKind(resp) ==
    IF resp.blockReason # None THEN "blocked"
    ELSE IF ~resp.json_ok THEN "not_json"
    ELSE IF resp.recommendations = <<>> THEN "empty"
    ELSE IF \E i \in DOMAIN resp.recommendations :
                \/ Strip(resp.recommendations[i].medication) = <<>>
                \/ Strip(resp.recommendations[i].dosage) = <<>>
         THEN "blank"
    ELSE "good"

\* steps 1 to 5 of generate_recommendations without their emit calls: for one
\* request and one behaviour of the provider, the exception of step 1 or the
\* recommendations of the AI and the annotated items of the loop
Recommend(request, resps) ==
    LET gemini_out == _call_with_retry(resps)
        ai == ResponseKind(resps[Len(resps)])
    IN  IF gemini_out.exc # None
        THEN {[request |-> request, ai |-> ai, exc |-> gemini_out.exc,
               recommendations |-> <<>>, annotated |-> <<>>]}
        ELSE {[request |-> request, ai |-> ai, exc |-> None,
               recommendations |-> gemini_out.recommendations, annotated |-> a] :
                 a \in AnnotateAll(request, gemini_out.recommendations,
                                   demo_formulary, interactions, dose_ranges)}

GenerateOutcomes ==
    UNION {Recommend(request, resps) : request \in Requests, resps \in AIBehaviours}

\* the outcome of a handler: the store and the analytics state it leaves, the
\* number of uuids drawn, the exception it ends with (None when it returns),
\* the message of the exception and the value returned
Outcome(prescriptions, receipts, an, uuids, exc, detail, value) ==
    [prescriptions |-> prescriptions, receipts |-> receipts, an |-> an,
     uuids |-> uuids, exc |-> exc, detail |-> detail, value |-> value]

\* PrescriptionService.generate_recommendations from step 2 on, for o in
\* GenerateOutcomes
generate_recommendations(prescriptions, receipts, an, uuids, o, now) ==
    IF o.exc # None
    THEN Outcome(prescriptions, receipts, an, uuids, o.exc, <<>>, None)
    ELSE LET annotated == o.annotated
             blocked == Flatten([i \in DOMAIN annotated |-> annotated[i].blocked_events])
             an1 == emit_each(an, "OPTION_BLOCKED", blocked, now)
             rx_id == Len(prescriptions) + 1
             saved == Append(prescriptions, NewPrescription(rx_id, o.request, annotated, now))
             an2 == emit(an1, "RECOMMENDATION_GENERATED", GeneratedEvent(o.request, annotated), now)
             response == [visit_id |-> o.request.visit_id,
                          prescription_id |-> rx_id,
                          recommendations |-> [i \in DOMAIN annotated |-> annotated[i].item]]
             \* the emits of the loop, the save of step 6, the emit of step 7
             trace == [k \in 1..(Len(an1.global) - Len(an.global)) |-> "emit"]
                      \o <<"save_prescription">>
                      \o [k \in 1..(Len(an2.global) - Len(an1.global)) |-> "emit"]
         IN  IF an1.raised # None
             THEN Outcome(prescriptions, receipts, an1, uuids, an1.raised, <<>>, None)
             ELSE IF an2.raised # None
             THEN [trace |-> trace] @@ Outcome(saved, receipts, an2, uuids, an2.raised, <<>>, None)
             ELSE [trace |-> trace] @@ Outcome(saved, receipts, an2, uuids, None, <<>>, Some(response))

\* _InMemoryPrescriptionStore.save_receipt
save_receipt(receipts, rx_id, receipt) ==
    [i \in DOMAIN receipts \cup {rx_id} |-> IF i = rx_id THEN receipt ELSE receipts[i]]

\* PrescriptionService.approve_prescription
approve_prescription(prescriptions, receipts, an, uuids, request, now) ==
    IF ~request.confirmed_safety_review
    THEN Outcome(prescriptions, receipts, an, uuids,
                 Some(ValidationError(0, {"field", "message", "operation"})), <<>>, None)
    ELSE IF request.prescription_id \notin DOMAIN prescriptions
    THEN Outcome(prescriptions, receipts, an, uuids, Some("ResourceNotFoundError"), <<>>, None)
    ELSE LET rx == prescriptions[request.prescription_id]
             reason == BlockedReason(rx)
             approved == [rx EXCEPT !.status = "approved", !.approved_at = Some(now)]
             receipt == _build_receipt(request.prescription_id, approved,
                                       uuid4(uuids + 1), uuid4(uuids), now)
             an1 == emit(an, "OPTION_APPROVED",
                         ApprovedEvent(request.prescription_id, receipt), now)
             saved == [prescriptions EXCEPT ![request.prescription_id] = approved]
             stored == save_receipt(receipts, request.prescription_id, receipt)
         IN  IF reason # None
             THEN Outcome(prescriptions, receipts, an, uuids,
                          Some("SafetyBlockError"), Val(reason), None)
             ELSE IF an1.raised # None
             THEN Outcome(saved, stored, an1, uuids + 2, an1.raised, <<>>, None)
             ELSE Outcome(saved, stored, an1, uuids + 2, None, <<>>, Some(receipt))

\* the rejection that emits no event
reject_prescription_silent(prescriptions, receipts, an, uuids, request, now) ==
    IF request.prescription_id \notin DOMAIN prescriptions
    THEN Outcome(prescriptions, receipts, an, uuids, Some("ResourceNotFoundError"), <<>>, None)
    ELSE LET rx == prescriptions[request.prescription_id]
             rejected == [rx EXCEPT !.status = "rejected",
                                    !.rejection_reason = Some(request.reason)]
         IN  Outcome([prescriptions EXCEPT ![request.prescription_id] = rejected],
                     receipts, an, uuids, None, <<>>, None)

\* the rejection that also drops the blocking flags of the items
reject_prescription_unflagged(prescriptions, receipts, an, uuids, request, now) ==
    IF request.prescription_id \notin DOMAIN prescriptions
    THEN Outcome(prescriptions, receipts, an, uuids, Some("ResourceNotFoundError"), <<>>, None)
    ELSE LET rx == prescriptions[request.prescription_id]
             rejected == [rx EXCEPT !.status = "rejected",
                                    !.rejection_reason = Some(request.reason),
                                    !.rules_results = <<>>]
             an1 == emit(an, "OPTION_REJECTED",
                         RejectedEvent(request.prescription_id, request.reason), now)
             saved == [prescriptions EXCEPT ![request.prescription_id] = rejected]
         IN  Outcome(saved, receipts, an1, uuids, an1.raised, <<>>, None)

\* PrescriptionService.reject_prescription
reject_prescription(prescriptions, receipts, an, uuids, request, now) ==
    IF request.prescription_id \notin DOMAIN prescriptions
    THEN Outcome(prescriptions, receipts, an, uuids, Some("ResourceNotFoundError"), <<>>, None)
    ELSE LET rx == prescriptions[request.prescription_id]
             rejected == [rx EXCEPT !.status = "rejected",
                                    !.rejection_reason = Some(request.reason)]
             an1 == emit(an, "OPTION_REJECTED",
                         RejectedEvent(request.prescription_id, request.reason), now)
             saved == [prescriptions EXCEPT ![request.prescription_id] = rejected]
         IN  Outcome(saved, receipts, an1, uuids, an1.raised, <<>>, None)

(***************************************************************************)
(* The running service: the shared store of the router, the module-level   *)
(* event buffer, the buffer of the AnalyticsService of the latest request, *)
(* the write tasks of the event loop and the sink they write to            *)
(***************************************************************************)
VARIABLES _prescriptions, _receipts, _GLOBAL_EVENT_BUFFER, _buffer, tasks,
          supabase_up, last_write, uuid_draws, calls, result

vars == <<_prescriptions, _receipts, _GLOBAL_EVENT_BUFFER, _buffer, tasks,
          supabase_up, last_write, uuid_draws, calls, result>>

RxIds == 1..(MaxRx + 1)

Init ==
    /\ _prescriptions = <<>>
    /\ _receipts = <<>>
    /\ _GLOBAL_EVENT_BUFFER = <<>>
    /\ _buffer = <<>>
    /\ tasks = <<>>
    /\ supabase_up = TRUE
    /\ last_write = None
    /\ uuid_draws = 0
    /\ calls = 0
    /\ result = [op |-> "none", request |-> [none |-> TRUE], ai |-> "", ai_call |-> None,
                 trace |-> <<>>, exc |-> None, detail |-> <<>>, value |-> None]

\* _get_prescription_service: every request gets an AnalyticsService of its
\* own, without a session, over the shared buffer and loop
AnalyticsService ==
    [buffer |-> <<>>, global |-> _GLOBAL_EVENT_BUFFER, tasks |-> tasks,
     up |-> supabase_up, raised |-> None]

\* the state a handler leaves and what its caller sees; ai_call is the call
\* the handler made to the AI service, if it made one, and trace the order of
\* its emits and saves, for the handlers that give it
Finish(op, request, ai, ai_call, out) ==
    /\ _prescriptions' = out.prescriptions
    /\ _receipts' = out.receipts
    /\ _GLOBAL_EVENT_BUFFER' = out.an.global
    /\ _buffer' = out.an.buffer
    /\ tasks' = out.an.tasks
    /\ uuid_draws' = out.uuids
    /\ calls' = calls + 1
    /\ result' = [op |-> op, request |-> request, ai |-> ai, ai_call |-> ai_call,
                  trace |-> IF "trace" \in DOMAIN out THEN out.trace ELSE <<>>,
                  exc |-> out.exc, detail |-> out.detail, value |-> out.value]
    /\ UNCHANGED <<supabase_up, last_write>>

GenerateRecommendations ==
    /\ calls < MaxCalls
    /\ Len(_prescriptions) < MaxRx
    /\ \E o \in GenerateOutcomes :
          Finish("generate_recommendations", o.request, o.ai,
                 Some([method |-> "generate_recommendations",
                       recommendations |-> o.recommendations]),
                 generate_recommendations(_prescriptions, _receipts, AnalyticsService,
                                          uuid_draws, o, calls + 1))

ApprovePrescription ==
    /\ calls < MaxCalls
    /\ \E prescription_id \in RxIds, confirmed_safety_review \in BOOLEAN :
          LET request == [prescription_id |-> prescription_id,
                          confirmed_safety_review |-> confirmed_safety_review]
          IN  Finish("approve_prescription", request, "", None,
                     approve_prescription(_prescriptions, _receipts, AnalyticsService,
                                          uuid_draws, request, calls + 1))

RejectPrescription ==
    /\ calls < MaxCalls
    /\ \E prescription_id \in RxIds, reason \in RejectionReasons :
          LET request == [prescription_id |-> prescription_id, reason |-> reason]
          IN  Finish("reject_prescription", request, "", None,
                     reject_prescription(_prescriptions, _receipts, AnalyticsService,
                                         uuid_draws, request, calls + 1))

\* one of the write tasks runs to its end
WriteToSupabase ==
    /\ \E i \in DOMAIN tasks :
          /\ last_write' = Some([entry |-> tasks[i]] @@ _write_to_supabase(supabase_up, tasks[i]))
          /\ tasks' = [j \in 1..(Len(tasks) - 1) |-> IF j < i THEN tasks[j] ELSE tasks[j + 1]]
    /\ UNCHANGED <<_prescriptions, _receipts, _GLOBAL_EVENT_BUFFER, _buffer,
                   supabase_up, uuid_draws, calls, result>>

\* the sink becomes unreachable, or reachable again
SupabaseOutage ==
    /\ supabase_up' = ~supabase_up
    /\ UNCHANGED <<_prescriptions, _receipts, _GLOBAL_EVENT_BUFFER, _buffer,
                   tasks, last_write, uuid_draws, calls, result>>

Next ==
    \/ GenerateRecommendations
    \/ ApprovePrescription
    \/ RejectPrescription
    \/ WriteToSupabase
    \/ SupabaseOutage

Spec == Init /\ [][Next]_vars

(***************************************************************************)
(* Properties                                                              *)
(***************************************************************************)
HasBlockingFlag(rx) == \E i \in DOMAIN rx.rules_results : rx.rules_results[i].blocked

\* the step is a call of generate_recommendations
Generating ==
    /\ calls' = calls + 1
    /\ result'.op = "generate_recommendations"

\* the step is approve_prescription called for prescription_id
Approving(prescription_id, confirmed_safety_review) ==
    /\ calls' = calls + 1
    /\ result'.op = "approve_prescription"
    /\ result'.request = [prescription_id |-> prescription_id,
                          confirmed_safety_review |-> confirmed_safety_review]

\* the step is reject_prescription called for prescription_id
Rejecting(prescription_id) ==
    /\ calls' = calls + 1
    /\ result'.op = "reject_prescription"
    /\ result'.request.prescription_id = prescription_id

\* C1: in every reachable state, no stored prescription that has an item
\* whose blocking flag is true has status approved
C1_BlockedNeverApproved ==
    \A id \in DOMAIN _prescriptions :
        HasBlockingFlag(_prescriptions[id]) => _prescriptions[id].status # "approved"

\* a confirmed approval was tried on a prescription whose second item only is
\* blocked, and the prescription is still recommended
C1_Witness ==
    /\ result.op = "approve_prescription"
    /\ result.request.confirmed_safety_review
    /\ result.request.prescription_id \in DOMAIN _prescriptions
    /\ LET rx == _prescriptions[result.request.prescription_id]
       IN  /\ Len(rx.rules_results) = 2
           /\ ~rx.rules_results[1].blocked
           /\ rx.rules_results[2].blocked
           /\ rx.status = "recommended"

\* C2: approve_prescription with confirmed_safety_review = true on a stored
\* prescription with a blocking flag ends with SafetyBlockError, leaves the
\* status of the prescription as it was and leaves no receipt for it
C2_BlockedApprovalFails ==
    [][\A id \in DOMAIN _prescriptions :
          (Approving(id, TRUE) /\ HasBlockingFlag(_prescriptions[id]))
          => /\ result'.exc = Some("SafetyBlockError")
             /\ _prescriptions'[id].status = _prescriptions[id].status
             /\ _receipts' = _receipts
             /\ id \notin DOMAIN _receipts']_vars

\* the last call was a confirmed approval of a blocked single-item
\* prescription and ended with SafetyBlockError carrying the first warning
C2_Witness ==
    /\ result.op = "approve_prescription"
    /\ result.request.confirmed_safety_review
    /\ result.exc = Some("SafetyBlockError")
    /\ result.request.prescription_id \in DOMAIN _prescriptions
    /\ LET rx == _prescriptions[result.request.prescription_id]
       IN  /\ Len(rx.items) = 1
           /\ HasBlockingFlag(rx)
           /\ rx.status = "recommended"
           /\ result.detail = <<"C","a","n","n","o","t"," ","a","p","p","r","o","v","e"," ","b","l","o","c","k","e","d"," ","p","r","e","s","c","r","i","p","t","i","o","n",":"," ">> \o rx.items[1].warnings[1]
    /\ result.request.prescription_id \notin DOMAIN _receipts

\* C3: approve_prescription with confirmed_safety_review not true ends with
\* ValidationError, whatever the blocking flags are, and changes neither the
\* prescriptions nor the receipts
C3_UnconfirmedApprovalIsValidationError ==
    [][(\E id \in RxIds : Approving(id, FALSE))
       => /\ result'.exc = Some("ValidationError")
          /\ _prescriptions' = _prescriptions
          /\ _receipts' = _receipts]_vars

\* C4: approve_prescription with confirmed_safety_review = true on a stored
\* prescription in status recommended without blocking flag returns: the
\* status is approved, approved_at is set, a receipt with status approved is
\* stored under the prescription id and returned, and exactly one
\* OPTION_APPROVED event is emitted with the prescription id, the first drug
\* and the total copay of the receipt
C4_ApprovalSucceeds ==
    [][\A id \in DOMAIN _prescriptions :
          (/\ Approving(id, TRUE)
           /\ _prescriptions[id].status = "recommended"
           /\ ~HasBlockingFlag(_prescriptions[id]))
          => /\ result'.exc = None
             /\ _prescriptions'[id].status = "approved"
             /\ _prescriptions'[id].approved_at = Some(calls')
             /\ id \in DOMAIN _receipts'
             /\ _receipts'[id].status = "approved"
             /\ _receipts'[id].prescription_id = id
             /\ _receipts'[id].coverage.total_copay =
                    SumOf([i \in DOMAIN _prescriptions[id].items |->
                             IF _prescriptions[id].items[i].primary.estimated_copay = None
                             THEN 0
                             ELSE Val(_prescriptions[id].items[i].primary.estimated_copay)])
             /\ result'.value = Some(_receipts'[id])
             /\ Len(_buffer') = 1
             /\ _buffer'[1].event_type = "OPTION_APPROVED"
             /\ _buffer'[1].event_data.prescriptionId = id
             /\ _buffer'[1].event_data.medication = _prescriptions[id].items[1].primary.drug_name
             /\ _buffer'[1].event_data.copay = _receipts'[id].coverage.total_copay
             /\ _GLOBAL_EVENT_BUFFER' = Append(_GLOBAL_EVENT_BUFFER, _buffer'[1])]_vars

\* the last call approved a two-item prescription and returned its receipt,
\* whose total copay is the sum of the two copays
C4_Witness ==
    /\ result.op = "approve_prescription"
    /\ result.exc = None
    /\ result.request.prescription_id \in DOMAIN _receipts
    /\ result.value = Some(_receipts[result.request.prescription_id])
    /\ Len(_prescriptions[result.request.prescription_id].items) = 2
    /\ _prescriptions[result.request.prescription_id].status = "approved"
    /\ _receipts[result.request.prescription_id].coverage.total_copay = 1300
    /\ Len(_buffer) = 1
    /\ _buffer[1].event_data.copay = 1300

\* C5: approved and rejected are terminal: no call of approve_prescription
\* or reject_prescription changes the status of a prescription that is
\* approved or rejected, and such a call ends with ValidationError (an
\* approval without confirmed safety review is the case of C3 and is left to
\* it); the only transitions are recommended to approved or rejected
C5_TerminalStatuses ==
    [][\A id \in DOMAIN _prescriptions :
          /\ _prescriptions'[id].status # _prescriptions[id].status
             => /\ _prescriptions[id].status = "recommended"
                /\ _prescriptions'[id].status \in {"approved", "rejected"}
          /\ (/\ _prescriptions[id].status \in {"approved", "rejected"}
              /\ Approving(id, TRUE) \/ Rejecting(id))
             => result'.exc = Some("ValidationError")]_vars

\* C6: a receipt is written once: a receipt stored for a prescription id is
\* never replaced or modified by a later step
C6_ReceiptWriteOnce ==
    [][\A id \in DOMAIN _receipts :
          /\ id \in DOMAIN _receipts'
          /\ _receipts'[id] = _receipts[id]]_vars

\* C7: in every reachable state a receipt is stored under a prescription id
\* exactly when the prescription with that id has status approved
C7_ReceiptIffApproved ==
    \A id \in RxIds :
        id \in DOMAIN _receipts
        <=> (id \in DOMAIN _prescriptions /\ _prescriptions[id].status = "approved")

\* C8: a failing emission never fails the call that made it and never undoes
\* its state change: a handler that emits while the sink is unreachable
\* returns, with the approval (and receipt), the rejection or the new
\* prescription stored; and a write task that fails later changes neither
\* the prescriptions, the receipts nor the result the caller got
C8_EmitFailureNeverSurfaces ==
    [][/\ (calls' = calls + 1 /\ ~supabase_up /\ _buffer' # <<>>)
          => /\ result'.exc = None
             /\ result'.op = "approve_prescription"
                => /\ _prescriptions'[result'.request.prescription_id].status = "approved"
                   /\ result'.request.prescription_id \in DOMAIN _receipts'
                   /\ result'.value = Some(_receipts'[result'.request.prescription_id])
             /\ result'.op = "reject_prescription"
                => _prescriptions'[result'.request.prescription_id].status = "rejected"
             /\ result'.op = "generate_recommendations"
                => /\ Len(_prescriptions') = Len(_prescriptions) + 1
                   /\ result'.value # None
                   /\ Val(result'.value).prescription_id = Len(_prescriptions')
       /\ (calls' = calls /\ Len(tasks') < Len(tasks) /\ ~Val(last_write').ok)
          => UNCHANGED <<_prescriptions, _receipts, result>>]_vars

\* the write of the OPTION_APPROVED event of the last call failed; the call
\* had returned the receipt and the prescription is still approved
C8_Witness ==
    /\ last_write # None
    /\ ~Val(last_write).ok
    /\ Val(last_write).entry.event_type = "OPTION_APPROVED"
    /\ result.op = "approve_prescription"
    /\ result.exc = None
    /\ Val(last_write).entry.event_data.prescriptionId = result.request.prescription_id
    /\ _prescriptions[result.request.prescription_id].status = "approved"
    /\ result.value = Some(_receipts[result.request.prescription_id])

\* C9: when the last response of the provider is an empty list, a list with
\* a blank medication or dosage, or no JSON, generate_recommendations ends
\* with an exception, stores no prescription and emits no event
C9_MalformedAiFails ==
    [][(Generating /\ result'.ai \in {"empty", "blank", "not_json"})
       => /\ result'.exc # None
          /\ result'.value = None
          /\ _prescriptions' = _prescriptions
          /\ _buffer' = <<>>
          /\ _GLOBAL_EVENT_BUFFER' = _GLOBAL_EVENT_BUFFER
          /\ tasks' = tasks]_vars

\* the provider answered with a blank medication: the call raised, and
\* neither a prescription nor an event exists
C9_Witness ==
    /\ result.op = "generate_recommendations"
    /\ result.ai = "blank"
    /\ result.exc = Some("TypeError")
    /\ result.value = None
    /\ _prescriptions = <<>>
    /\ _GLOBAL_EVENT_BUFFER = <<>>

\* C10: reject_prescription for an id without prescription ends with
\* ResourceNotFoundError and changes no prescription and emits nothing;
\* otherwise it sets the status to rejected, records the reason and emits
\* exactly one OPTION_REJECTED event
C10_Reject ==
    [][\A id \in RxIds :
          Rejecting(id)
          => IF id \notin DOMAIN _prescriptions
             THEN /\ result'.exc = Some("ResourceNotFoundError")
                  /\ _buffer' = <<>>
                  /\ UNCHANGED <<_prescriptions, _receipts, _GLOBAL_EVENT_BUFFER, tasks>>
             ELSE /\ result'.exc = None
                  /\ _prescriptions'[id].status = "rejected"
                  /\ _prescriptions'[id].rejection_reason = Some(result'.request.reason)
                  /\ Len(_buffer') = 1
                  /\ _buffer'[1].event_type = "OPTION_REJECTED"
                  /\ _buffer'[1].event_data.prescriptionId = id
                  /\ _buffer'[1].event_data.reason = result'.request.reason
                  /\ _GLOBAL_EVENT_BUFFER' = Append(_GLOBAL_EVENT_BUFFER, _buffer'[1])]_vars

\* prescription 1 was rejected with its reason recorded, and the last call, a
\* rejection of an id without prescription, ended with ResourceNotFoundError
C10_Witness ==
    /\ result.op = "reject_prescription"
    /\ result.exc = Some("ResourceNotFoundError")
    /\ result.request.prescription_id \notin DOMAIN _prescriptions
    /\ 1 \in DOMAIN _prescriptions
    /\ _prescriptions[1].status = "rejected"
    /\ _prescriptions[1].rejection_reason = Some("Patient declined")
    /\ Len(_GLOBAL_EVENT_BUFFER) = 2
    /\ _GLOBAL_EVENT_BUFFER[2].event_type = "OPTION_REJECTED"

(***************************************************************************)
(* The lookups of the service                                              *)
(***************************************************************************)
\* PrescriptionService.get_receipt
get_receipt(prescriptions, receipts, an, uuids, prescription_id) ==
    IF prescription_id \notin DOMAIN receipts
    THEN Outcome(prescriptions, receipts, an, uuids, Some("ResourceNotFoundError"), <<>>, None)
    ELSE Outcome(prescriptions, receipts, an, uuids, None, <<>>, Some(receipts[prescription_id]))

\* how a call of GeminiService.generate_patient_instructions can end: with the
\* validated instructions, or with an exception of _call_with_retry
PatientInstructionAnswers == {"return", "SafetyBlockError", "RuntimeError"}

\* GeminiService.generate_patient_instructions: the call made and its end
generate_patient_instructions(medication, dosage, frequency, duration, answer) ==
    [ai_call |-> Some([method |-> "generate_patient_instructions",
                       medication |-> medication, dosage |-> dosage,
                       frequency |-> frequency, duration |-> duration]),
     exc |-> IF answer = "return" THEN None ELSE Some(answer),
     value |-> IF answer = "return" THEN Some([medication_name |-> medication]) ELSE None]

\* PrescriptionService.generate_patient_pack; the outcome carries the call
\* made to the AI service, None when none was made
generate_patient_pack(prescriptions, receipts, an, uuids, prescription_id, answer) ==
    IF prescription_id \notin DOMAIN prescriptions
    THEN [ai_call |-> None] @@
         Outcome(prescriptions, receipts, an, uuids, Some("ResourceNotFoundError"), <<>>, None)
    ELSE LET rx == prescriptions[prescription_id]
             items == rx.items
             primary == items[1].primary
             instructions == generate_patient_instructions(
                                 primary.drug_name, primary.dosage,
                                 primary.frequency, primary.duration, answer)
         IN  IF rx.status # "approved"
             THEN [ai_call |-> None] @@
                  Outcome(prescriptions, receipts, an, uuids,
                          Some(ValidationError(0, {"field", "message", "operation"})), <<>>, None)
             ELSE IF items = <<>>
             THEN [ai_call |-> None] @@
                  Outcome(prescriptions, receipts, an, uuids,
                          Some(ValidationError(0, {"field", "message", "operation"})), <<>>, None)
             ELSE [ai_call |-> instructions.ai_call] @@
                  Outcome(prescriptions, receipts, an, uuids,
                          instructions.exc, <<>>, instructions.value)

GetReceipt ==
    /\ calls < MaxCalls
    /\ \E prescription_id \in RxIds :
          Finish("get_receipt", [prescription_id |-> prescription_id], "", None,
                 get_receipt(_prescriptions, _receipts, AnalyticsService,
                             uuid_draws, prescription_id))

GeneratePatientPack ==
    /\ calls < MaxCalls
    /\ \E prescription_id \in RxIds, answer \in PatientInstructionAnswers :
          LET out == generate_patient_pack(_prescriptions, _receipts, AnalyticsService,
                                           uuid_draws, prescription_id, answer)
          IN  Finish("generate_patient_pack", [prescription_id |-> prescription_id],
                     "", out.ai_call, out)

\* the service with its lookups, the write tasks left pending
NextLookups ==
    \/ GenerateRecommendations
    \/ ApprovePrescription
    \/ RejectPrescription
    \/ GetReceipt
    \/ GeneratePatientPack

SpecLookups == Init /\ [][NextLookups]_vars

\* the step is get_receipt called for prescription_id
GettingReceipt(prescription_id) ==
    /\ calls' = calls + 1
    /\ result'.op = "get_receipt"
    /\ result'.request.prescription_id = prescription_id

\* the step is generate_patient_pack called for prescription_id
GeneratingPatientPack(prescription_id) ==
    /\ calls' = calls + 1
    /\ result'.op = "generate_patient_pack"
    /\ result'.request.prescription_id = prescription_id

\* C11: generate_patient_pack fails with ResourceNotFoundError for an unknown
\* prescription id and with ValidationError when the prescription is not
\* approved or has no items, and only otherwise asks the AI service for
\* instructions for the drug of the first item; get_receipt fails with
\* ResourceNotFoundError when no receipt is stored for the id; neither changes
\* a stored prescription or receipt
C11_Lookups ==
    [][\A id \in RxIds :
        /\ GeneratingPatientPack(id) =>
              /\ _prescriptions' = _prescriptions
              /\ _receipts' = _receipts
              /\ IF id \notin DOMAIN _prescriptions
                 THEN result'.exc = Some("ResourceNotFoundError") /\ result'.ai_call = None
                 ELSE IF \/ _prescriptions[id].status # "approved"
                         \/ _prescriptions[id].items = <<>>
                 THEN result'.exc = Some("ValidationError") /\ result'.ai_call = None
                 ELSE /\ result'.ai_call # None
                      /\ Val(result'.ai_call).method = "generate_patient_instructions"
                      /\ Val(result'.ai_call).medication =
                            _prescriptions[id].items[1].primary.drug_name
        /\ GettingReceipt(id) =>
              /\ _prescriptions' = _prescriptions
              /\ _receipts' = _receipts
              /\ id \notin DOMAIN _receipts => result'.exc = Some("ResourceNotFoundError")
              /\ id \in DOMAIN _receipts =>
                    result'.exc = None /\ result'.value = Some(_receipts[id])
    ]_vars

\* the detail strings of the checks that did not pass, in the order of the checks
NonPassDetails(checks) ==
    LET kept == SelectSeq(checks, LAMBDA c : c.status # "PASS")
    IN  [i \in DOMAIN kept |-> kept[i].details]

\* the stored item and blocking flag are those of the AI candidate gem_item
\* of the request, for one of the outputs of the rules engine
ItemOfCandidate(item, blocked, request, gem_item) ==
    /\ item.primary.drug_name = gem_item.medication
    /\ item.primary.dosage = gem_item.dosage
    /\ item.primary.frequency = gem_item.frequency
    /\ item.primary.duration = gem_item.duration
    /\ \E out \in evaluate(RulesEngineInput(request, gem_item, interactions, dose_ranges)) :
          /\ blocked = out.has_blocking_failure
          /\ item.warnings = NonPassDetails(out.checks)
    /\ Len(item.alternatives) <= 3
    /\ lookup_coverage(gem_item.medication, demo_formulary, <<>>, "").status = "COVERED"
          => item.alternatives = <<>>

MaxDrugs == 2

\* schemas.validation.ProposedDrug
ProposedDrug(drug_name, dosage, frequency) ==
    [drug_name |-> drug_name, generic_name |-> <<>>, dosage |-> dosage,
     frequency |-> frequency, duration |-> "", route |-> "oral"]

\* the drugs of the validation tests, and metformin above its maximum
ProposedDrugs ==
    { ProposedDrug(<<"M","e","t","f","o","r","m","i","n">>, <<"5","0","0","m","g">>, "twice daily"),
      ProposedDrug(<<"A","m","o","x","i","c","i","l","l","i","n">>, <<"5","0","0","m","g">>, "tid"),
      ProposedDrug(<<"M","e","t","f","o","r","m","i","n">>, <<"3","0","0","0","m","g">>, "twice daily") }

\* schemas.validation.ValidationRequest with the patient_allergies and
\* current_medications the caller passes along with it
ValidationRequest(visit_id, patient_id, proposed_drugs, patient_allergies, current_medications) ==
    [visit_id |-> visit_id, patient_id |-> patient_id, proposed_drugs |-> proposed_drugs,
     patient_allergies |-> patient_allergies, current_medications |-> current_medications]

\* the patients of Requests, and one who is allergic to metformin
ValidationPatients ==
    {[visit_id |-> r.visit_id, patient_id |-> r.patient_id,
      patient_allergies |-> r.allergies,
      current_medications |-> r.current_medications] : r \in Requests}
    \cup {[visit_id |-> "visit-3", patient_id |-> "patient-3",
           patient_allergies |-> << <<"M","e","t","f","o","r","m","i","n">> >>,
           current_medications |-> <<>>]}

ValidationRequests ==
    {ValidationRequest(p.visit_id, p.patient_id, proposed_drugs,
                       p.patient_allergies, p.current_medications) :
        p \in ValidationPatients,
        proposed_drugs \in UNION {[1..n -> ProposedDrugs] : n \in 0..MaxDrugs}}

\* schemas.validation.ValidationFlag for the checks that did not pass
ValidationFlags(checks) ==
    LET kept == SelectSeq(checks, LAMBDA c : c.status # "PASS")
    IN  [i \in DOMAIN kept |->
            [rule |-> kept[i].check_type,
             severity |-> IF kept[i].blocking THEN "BLOCKING" ELSE kept[i].status,
             drug |-> kept[i].medication_name,
             message |-> kept[i].details,
             related_drug |-> kept[i].related_drug,
             related_allergy |-> None]]

\* the loop body that records the first blocking check of a drug only
ValidateDrugFirstReason(drug, rules_out, formulary) ==
    LET coverage == lookup_coverage(drug.drug_name, formulary, <<>>, "")
        passed == ~rules_out.has_blocking_failure
        reasons == BlockingDetails(rules_out.checks)
    IN  [result |-> [drug_name |-> drug.drug_name,
                     passed |-> passed,
                     tier |-> coverage.tier,
                     copay |-> coverage.copay,
                     is_covered |-> Some(coverage.is_covered),
                     requires_prior_auth |-> coverage.requires_prior_auth,
                     flags |-> ValidationFlags(rules_out.checks)],
         block_reasons |-> IF passed THEN <<>> ELSE <<reasons[1]>>]

\* the loop body of validate_prescriptions for one drug whose rules engine
\* output is rules_out: its result and the block reasons it adds
ValidateDrug(drug, rules_out, formulary) ==
    LET coverage == lookup_coverage(drug.drug_name, formulary, <<>>, "")
        passed == ~rules_out.has_blocking_failure
    IN  [result |-> [drug_name |-> drug.drug_name,
                     passed |-> passed,
                     tier |-> coverage.tier,
                     copay |-> coverage.copay,
                     is_covered |-> Some(coverage.is_covered),
                     requires_prior_auth |-> coverage.requires_prior_auth,
                     flags |-> ValidationFlags(rules_out.checks)],
         block_reasons |-> IF passed THEN <<>> ELSE BlockingDetails(rules_out.checks)]

\* the rules engine input of validate_prescriptions for one drug
ValidationEngineInput(request, drug, drug_interactions, ranges) ==
    [medication_name |-> drug.drug_name,
     dosage |-> drug.dosage,
     patient_allergies |-> request.patient_allergies,
     current_medications |-> request.current_medications,
     drug_interactions |-> drug_interactions,
     dose_ranges |-> ranges]

RECURSIVE ValidateAll(_, _, _, _, _)
\* the loop over request.proposed_drugs: every list of per-drug records it can
\* build (one list unless the rules engine has several possible outputs)
ValidateAll(request, drugs, drug_interactions, ranges, formulary) ==
    IF drugs = <<>> THEN {<<>>}
    ELSE {<<ValidateDrug(drugs[1], out, formulary)>> \o rest :
             out \in evaluate(ValidationEngineInput(request, drugs[1],
                                                    drug_interactions, ranges)),
             rest \in ValidateAll(request, Tail(drugs), drug_interactions,
                                  ranges, formulary)}

\* PrescriptionService.validate_prescriptions: the responses it can return
validate_prescriptions(request, drug_interactions, ranges, formulary) ==
    {LET blocked == \E i \in DOMAIN per_drug : ~per_drug[i].result.passed
     IN  [visit_id |-> request.visit_id,
          patient_id |-> request.patient_id,
          all_passed |-> ~blocked,
          results |-> [i \in DOMAIN per_drug |-> per_drug[i].result],
          blocked |-> blocked,
          block_reasons |-> Flatten([i \in DOMAIN per_drug |-> per_drug[i].block_reasons])]
     : per_drug \in ValidateAll(request, request.proposed_drugs, drug_interactions,
                                ranges, formulary)}

\* the validation requests with the responses they can get
ValidateOutcomes ==
    UNION {{[request |-> request, response |-> response] :
               response \in validate_prescriptions(request, interactions, dose_ranges,
                                                   demo_formulary)} :
           request \in ValidationRequests}

ValidatePrescriptions ==
    /\ calls < MaxCalls
    /\ \E o \in ValidateOutcomes :
          Finish("validate_prescriptions", o.request, "", None,
                 Outcome(_prescriptions, _receipts, AnalyticsService, uuid_draws,
                         None, <<>>, Some(o.response)))

\* recommendations and standalone validations, the write tasks left pending
NextValidation ==
    \/ GenerateRecommendations
    \/ ValidatePrescriptions

SpecValidation == Init /\ [][NextValidation]_vars

\* the step is a call of validate_prescriptions
Validating ==
    /\ calls' = calls + 1
    /\ result'.op = "validate_prescriptions"

\* the outputs of the rules engine for every patient and proposed drug
RulesOutputs ==
    [p \in ValidationPatients |->
        [drug \in ProposedDrugs |->
            evaluate(ValidationEngineInput(p, drug, interactions, dose_ranges))]]

\* the patient of a validation request
PatientOf(request) ==
    [visit_id |-> request.visit_id, patient_id |-> request.patient_id,
     patient_allergies |-> request.patient_allergies,
     current_medications |-> request.current_medications]

\* the rules engine outputs the drugs of a validation request can get
DrugOutputs(request) ==
    UNION {RulesOutputs[PatientOf(request)][request.proposed_drugs[i]] :
              i \in DOMAIN request.proposed_drugs}

\* outs[i] is an output of the rules engine for the i-th drug of the request
OutputsOf(request, outs) ==
    \A i \in DOMAIN request.proposed_drugs :
        outs[i] \in RulesOutputs[PatientOf(request)][request.proposed_drugs[i]]

\* C13: validate_prescriptions returns one result per proposed drug in the
\* order of the request with passed = not has_blocking_failure for that drug;
\* blocked is true, and all_passed false, exactly when some drug has a
\* blocking check; block_reasons has one entry per blocking check of all the
\* drugs, in the order of the drugs; the call makes no AI call, stores no
\* prescription and emits no event
C13_Validate ==
    [][Validating =>
        LET request == result'.request
            drugs == request.proposed_drugs
            response == Val(result'.value)
        IN  /\ result'.exc = None
            /\ Len(response.results) = Len(drugs)
            /\ \A i \in DOMAIN drugs : response.results[i].drug_name = drugs[i].drug_name
            /\ \E outs \in [DOMAIN drugs -> DrugOutputs(request)] :
                  LET any_blocking == \E i \in DOMAIN drugs : \E c \in DOMAIN outs[i].checks :
                                          outs[i].checks[c].blocking
                  IN  /\ OutputsOf(request, outs)
                      /\ \A i \in DOMAIN drugs :
                            response.results[i].passed = ~outs[i].has_blocking_failure
                      /\ response.blocked = any_blocking
                      /\ response.all_passed = ~any_blocking
                      /\ response.block_reasons =
                            Flatten([i \in DOMAIN drugs |-> BlockingDetails(outs[i].checks)])
            /\ result'.ai_call = None
            /\ _prescriptions' = _prescriptions
            /\ _receipts' = _receipts
            /\ _GLOBAL_EVENT_BUFFER' = _GLOBAL_EVENT_BUFFER
            /\ tasks' = tasks
    ]_vars

\* a validation of two drugs for the patient allergic to metformin: metformin
\* above its maximum has two blocking checks, amoxicillin passes
C13_Witness ==
    /\ result.op = "validate_prescriptions"
    /\ Len(Val(result.value).results) = 2
    /\ ~Val(result.value).results[1].passed
    /\ Val(result.value).results[2].passed
    /\ Val(result.value).blocked
    /\ ~Val(result.value).all_passed
    /\ Len(Val(result.value).block_reasons) = 2
    /\ Len(_prescriptions) = 1

(***************************************************************************)
(* The rules engine on its own: an input is drawn, evaluate is applied     *)
(***************************************************************************)
MaxMeds == 2

\* the lists of at most MaxMeds strings of a set
ListsOf(strings) == UNION {[1..n -> strings] : n \in 0..MaxMeds}

\* INTERACTIONS of the rules engine tests
INTERACTIONS ==
    << [drug_a |-> <<"W","a","r","f","a","r","i","n">>, drug_b |-> <<"A","s","p","i","r","i","n">>, severity |-> <<"S","E","V","E","R","E">>,
        description |-> <<"I","n","c","r","e","a","s","e","d"," ","b","l","e","e","d","i","n","g"," ","r","i","s","k">>],
       [drug_a |-> <<"L","i","s","i","n","o","p","r","i","l">>, drug_b |-> <<"I","b","u","p","r","o","f","e","n">>, severity |-> <<"M","O","D","E","R","A","T","E">>,
        description |-> <<"R","e","d","u","c","e","d"," ","a","n","t","i","h","y","p","e","r","t","e","n","s","i","v","e"," ","e","f","f","e","c","t">>],
       [drug_a |-> <<"S","S","R","I","s">>, drug_b |-> <<"M","A","O","I","s">>, severity |-> <<"S","E","V","E","R","E">>,
        description |-> <<"S","e","r","o","t","o","n","i","n"," ","s","y","n","d","r","o","m","e"," ","r","i","s","k">>],
       [drug_a |-> <<"A","C","E"," ","i","n","h","i","b","i","t","o","r","s">>, drug_b |-> <<"N","S","A","I","D","s">>, severity |-> <<"M","O","D","E","R","A","T","E">>,
        description |-> <<"R","e","d","u","c","e","d"," ","a","n","t","i","h","y","p","e","r","t","e","n","s","i","v","e"," ","e","f","f","e","c","t">>] >>

\* records of other severities and spellings, two of them for one pair
MIXED_INTERACTIONS ==
    << [drug_a |-> <<" ","a","s","p","i","r","i","n">>, drug_b |-> <<"W","A","R","F","A","R","I","N"," ">>, severity |-> <<"M","o","d","e","r","a","t","e">>,
        description |-> <<"B","l","e","e","d","i","n","g">>],
       [drug_a |-> <<"W","a","r","f","a","r","i","n">>, drug_b |-> <<"A","s","p","i","r","i","n">>, severity |-> <<"s","e","v","e","r","e">>,
        description |-> <<"I","n","c","r","e","a","s","e","d"," ","b","l","e","e","d","i","n","g"," ","r","i","s","k">>],
       [drug_a |-> <<"I","b","u","p","r","o","f","e","n">>, drug_b |-> <<"W","a","r","f","a","r","i","n">>, severity |-> <<"M","I","L","D">>,
        description |-> <<"B","r","u","i","s","i","n","g">>],
       [drug_a |-> <<"I","b","u","p","r","o","f","e","n">>, drug_b |-> <<"L","i","s","i","n","o","p","r","i","l">>, severity |-> <<"C","O","N","T","R","A","I","N","D","I","C","A","T","E","D">>,
        description |-> <<"R","e","n","a","l"," ","r","i","s","k">>],
       [drug_a |-> <<"I","b","u","p","r","o","f","e","n">>, drug_b |-> <<"I","b","u","p","r","o","f","e","n">>, severity |-> <<"S","E","V","E","R","E">>,
        description |-> <<"O","v","e","r","d","o","s","e">>] >>

\* DOSE_RANGES of the rules engine tests
DOSE_RANGES ==
    << [medication_name |-> <<"M","e","t","f","o","r","m","i","n">>, min_dose_mg |-> 500, max_dose_mg |-> 2550],
       [medication_name |-> <<"L","i","s","i","n","o","p","r","i","l">>, min_dose_mg |-> 5, max_dose_mg |-> 40],
       [medication_name |-> <<"A","t","o","r","v","a","s","t","a","t","i","n">>, min_dose_mg |-> 10, max_dose_mg |-> 80],
       [medication_name |-> <<"A","m","o","x","i","c","i","l","l","i","n">>, min_dose_mg |-> 250, max_dose_mg |-> 3000] >>

\* schemas.rules_engine.RulesEngineInput
EngineInput(medication_name, dosage, patient_allergies, current_medications, drug_interactions, ranges) ==
    [medication_name |-> medication_name, dosage |-> dosage,
     patient_allergies |-> patient_allergies,
     current_medications |-> current_medications,
     drug_interactions |-> drug_interactions, dose_ranges |-> ranges]

\* proposed drugs against lists of allergies: class keys, members of a class,
\* the drug itself in another spelling, and an allergy that is no drug
AllergyInputs ==
    {EngineInput(medication_name, <<"5","0","0","m","g">>, patient_allergies, <<>>, INTERACTIONS, DOSE_RANGES) :
        medication_name \in {<<"A","m","o","x","i","c","i","l","l","i","n">>, <<" ","I","B","U","P","R","O","F","E","N"," ">>, <<"A","s","p","i","r","i","n">>, <<"M","e","t","f","o","r","m","i","n">>,
                             <<"P","e","n","i","c","i","l","l","i","n"," ","V">>},
        patient_allergies \in ListsOf({<<"P","e","n","i","c","i","l","l","i","n">>, <<" ","n","s","a","i","d">>, <<"A","m","p","i","c","i","l","l","i","n">>,
                                       <<"A","S","P","I","R","I","N">>, <<"L","a","t","e","x">>})}

\* proposed drugs against lists of current medications, under each table
InteractionInputs ==
    {EngineInput(medication_name, <<"2","0","m","g">>, <<>>, current_medications, drug_interactions, DOSE_RANGES) :
        medication_name \in {<<"W","a","r","f","a","r","i","n">>, <<"A","s","p","i","r","i","n">>, <<"L","i","s","i","n","o","p","r","i","l">>, <<"I","b","u","p","r","o","f","e","n">>},
        current_medications \in ListsOf({<<"W","a","r","f","a","r","i","n">>, <<"a","s","p","i","r","i","n"," ">>, <<"I","b","u","p","r","o","f","e","n">>,
                                         <<"N","a","p","r","o","x","e","n">>, <<"L","i","s","i","n","o","p","r","i","l">>}),
        drug_interactions \in {INTERACTIONS, MIXED_INTERACTIONS, <<>>}}

\* dosage strings: at, above and below the bounds of the ranges, in each
\* unit and spelling of a unit, and strings without a dose
Dosages ==
    { <<"5","0","0","m","g">>, <<"4","9","9","m","g">>, <<"2","5","5","0","m","g">>, <<"2","5","5","1","m","g">>, <<"0",".","5","g">>, <<"2",".","5","5"," ","G">>, <<"3","g">>,
      <<"5","0","0","0","0","0","m","c","g">>, <<"4","9","9","9","9","9"," ","m","c","g">>, <<"5","m","g">>, <<"4",".","9","m","g">>, <<"4","0"," ","M","g">>, <<"4","0",".","5","m","g">>,
      <<"2","0","m","g">>, <<"2","0","0","0","0","u","g">>, <<"2","0","0","0","0","MICRO","g">>,
      <<"2","0","0","0","0","GREEK_MU","g">>, <<"5","GREEK_CAPITAL_MU","G">>,
      <<"t","w","o"," ","t","a","b","l","e","t","s">>, <<>>, <<"2","0">>, <<"1"," ","t","a","b","l","e","t"," ","o","f"," ","2","0","m","g">> }

DoseInputs ==
    {EngineInput(medication_name, dosage, <<>>, <<>>, INTERACTIONS, ranges) :
        medication_name \in {<<"M","e","t","f","o","r","m","i","n">>, <<" ","l","i","s","i","n","o","p","r","i","l">>, <<"A","s","p","i","r","i","n">>},
        dosage \in Dosages,
        ranges \in {DOSE_RANGES, <<>>}}

RulesInputs == AllergyInputs \cup InteractionInputs \cup DoseInputs

\* an input is at hand, nothing has been evaluated
InitRules ==
    /\ _prescriptions = <<>>
    /\ _receipts = <<>>
    /\ _GLOBAL_EVENT_BUFFER = <<>>
    /\ _buffer = <<>>
    /\ tasks = <<>>
    /\ supabase_up = TRUE
    /\ last_write = None
    /\ uuid_draws = 0
    /\ calls = 0
    /\ \E input_data \in RulesInputs :
          result = [op |-> "input", request |-> input_data, ai |-> "", ai_call |-> None,
                    trace |-> <<>>, exc |-> None, detail |-> <<>>, value |-> None]

\* RulesEngineService.evaluate applied to the input
Evaluate ==
    /\ result.op = "input"
    /\ \E out \in evaluate(result.request) :
          result' = [result EXCEPT !.op = "evaluate", !.value = Some(out)]
    /\ calls' = calls + 1
    /\ UNCHANGED <<_prescriptions, _receipts, _GLOBAL_EVENT_BUFFER, _buffer, tasks,
                   supabase_up, last_write, uuid_draws>>

NextRules == Evaluate

SpecRules == InitRules /\ [][NextRules]_vars

\* the checks of one type in the output of evaluate
ChecksOf(out, check_type) == SelectSeq(out.checks, LAMBDA c : c.check_type = check_type)

\* C14: in every output of evaluate, has_blocking_failure is the OR of the
\* blocking flags of the checks, and overall_status is BLOCKED when a check is
\* blocking, otherwise WARNING when a check has status WARNING, otherwise PASS
C14_SummaryDerived ==
    result.op = "evaluate" =>
        LET out == Val(result.value)
            any_blocking == \E i \in DOMAIN out.checks : out.checks[i].blocking
            any_warning == \E i \in DOMAIN out.checks : out.checks[i].status = "WARNING"
        IN  /\ out.has_blocking_failure = any_blocking
            /\ any_blocking => out.overall_status = "BLOCKED"
            /\ (~any_blocking /\ any_warning) => out.overall_status = "WARNING"
            /\ (~any_blocking /\ ~any_warning) => out.overall_status = "PASS"

\* an output with a warning and a blocking check, which is BLOCKED
C14_Witness ==
    /\ result.op = "evaluate"
    /\ Val(result.value).overall_status = "BLOCKED"
    /\ Val(result.value).has_blocking_failure
    /\ \E i \in DOMAIN Val(result.value).checks :
          /\ Val(result.value).checks[i].status = "WARNING"
          /\ ~Val(result.value).checks[i].blocking

\* C15: whenever the allergy list holds an allergy that shares a drug class
\* with the proposed drug (the allergy is a class key whose members include
\* the drug, or both are members of one class; names lower-cased and
\* trimmed), evaluate returns an ALLERGY check with status FAIL and
\* blocking, and has_blocking_failure is true
C15_ClassAllergyBlocks ==
    result.op = "evaluate" =>
        LET out == Val(result.value)
            drug == Strip(Lower(result.request.medication_name))
            allergies == result.request.patient_allergies
            shares(allergy) ==
                \/ allergy \in ClassKeys /\ drug \in ClassMembers(allergy)
                \/ \E key \in ClassKeys :
                      allergy \in ClassMembers(key) /\ drug \in ClassMembers(key)
        IN  (\E i \in DOMAIN allergies : shares(Strip(Lower(allergies[i]))))
            => /\ \E c \in DOMAIN out.checks :
                     /\ out.checks[c].check_type = "ALLERGY"
                     /\ out.checks[c].status = "FAIL"
                     /\ out.checks[c].blocking
               /\ out.has_blocking_failure

\* amoxicillin evaluated for a patient allergic to latex and to ampicillin,
\* which is in the class of amoxicillin and has no name in common with it
C15_Witness ==
    /\ result.op = "evaluate"
    /\ result.request.medication_name = <<"A","m","o","x","i","c","i","l","l","i","n">>
    /\ result.request.patient_allergies = << <<"L","a","t","e","x">>, <<"A","m","p","i","c","i","l","l","i","n">> >>
    /\ Val(result.value).checks[1].check_type = "ALLERGY"
    /\ Val(result.value).checks[1].status = "FAIL"
    /\ Val(result.value).has_blocking_failure

\* C16: when no allergy of the patient has a name in common with the proposed
\* drug (one contained in the other, lower-cased and trimmed) or shares a
\* drug class with it, the allergy list being empty included, evaluate
\* returns exactly one ALLERGY check, with status PASS and not blocking
C16_NoOverlapPasses ==
    result.op = "evaluate" =>
        LET out == Val(result.value)
            drug == Strip(Lower(result.request.medication_name))
            allergies == result.request.patient_allergies
            overlaps(allergy) ==
                \/ Contains(drug, allergy)
                \/ Contains(allergy, drug)
                \/ allergy \in ClassKeys /\ drug \in ClassMembers(allergy)
                \/ \E key \in ClassKeys :
                      allergy \in ClassMembers(key) /\ drug \in ClassMembers(key)
            found == ChecksOf(out, "ALLERGY")
        IN  (\A i \in DOMAIN allergies : ~overlaps(Strip(Lower(allergies[i]))))
            => /\ Len(found) = 1
               /\ found[1].status = "PASS"
               /\ ~found[1].blocking

\* metformin evaluated for a patient allergic to penicillin and to latex
C16_Witness ==
    /\ result.op = "evaluate"
    /\ result.request.medication_name = <<"M","e","t","f","o","r","m","i","n">>
    /\ result.request.patient_allergies = << <<"P","e","n","i","c","i","l","l","i","n">>, <<"L","a","t","e","x">> >>
    /\ Len(ChecksOf(Val(result.value), "ALLERGY")) = 1
    /\ Val(result.value).checks[1].status = "PASS"

\* the pairs (current medication c, record x) of an input whose record names
\* the proposed drug and the current medication, in either order
MatchingPairs(input_data) ==
    LET med == Strip(Lower(input_data.medication_name))
        cur(c) == Strip(Lower(input_data.current_medications[c]))
        a(x) == Strip(Lower(input_data.drug_interactions[x].drug_a))
        b(x) == Strip(Lower(input_data.drug_interactions[x].drug_b))
    IN  {p \in (DOMAIN input_data.current_medications) \X (DOMAIN input_data.drug_interactions) :
            \/ a(p[2]) = med /\ b(p[2]) = cur(p[1])
            \/ a(p[2]) = cur(p[1]) /\ b(p[2]) = med}

\* C17: the DRUG_INTERACTION checks are one per matching pair of a current
\* medication and a record, in the order of the medications and then of the
\* records; the check of a record whose severity (upper-cased) is SEVERE has
\* status FAIL and is blocking, and the check of a record of any other
\* severity has status WARNING and is not blocking, however many records match
C17_SeverityDecides ==
    result.op = "evaluate" =>
        LET input_data == result.request
            found == ChecksOf(Val(result.value), "DRUG_INTERACTION")
            pairs == MatchingPairs(input_data)
            rank(p) == 1 + Cardinality({q \in pairs :
                                           q[1] < p[1] \/ (q[1] = p[1] /\ q[2] < p[2])})
        IN  pairs # {} =>
               /\ Len(found) = Cardinality(pairs)
               /\ \A p \in pairs :
                     LET check == found[rank(p)]
                         severe == Upper(input_data.drug_interactions[p[2]].severity) = <<"S","E","V","E","R","E">>
                     IN  /\ check.related_drug = Some(input_data.current_medications[p[1]])
                         /\ severe => (check.status = "FAIL" /\ check.blocking)
                         /\ ~severe => (check.status = "WARNING" /\ ~check.blocking)

\* aspirin evaluated for a patient on warfarin under the mixed table: two
\* records match, the first of them of severity Moderate, the second of
\* severity severe
C17_Witness ==
    /\ result.op = "evaluate"
    /\ result.request.medication_name = <<"A","s","p","i","r","i","n">>
    /\ result.request.current_medications = << <<"W","a","r","f","a","r","i","n">> >>
    /\ result.request.drug_interactions = MIXED_INTERACTIONS
    /\ Len(ChecksOf(Val(result.value), "DRUG_INTERACTION")) = 2
    /\ ChecksOf(Val(result.value), "DRUG_INTERACTION")[1].status = "WARNING"
    /\ ChecksOf(Val(result.value), "DRUG_INTERACTION")[2].status = "FAIL"
    /\ ChecksOf(Val(result.value), "DRUG_INTERACTION")[2].blocking

\* the status and the blocking flag of each DRUG_INTERACTION check of an output
InteractionVerdicts(out) ==
    LET found == ChecksOf(out, "DRUG_INTERACTION")
    IN  [i \in DOMAIN found |-> <<found[i].status, found[i].blocking>>]

\* C18: the interaction lookup is symmetric in the pair: a drug X evaluated
\* with Y as the only current medication gets DRUG_INTERACTION checks with
\* the same statuses and blocking flags as Y evaluated with X as the only
\* current medication under the same table, and when a record of severity
\* SEVERE names X and Y both evaluations are blocking
C18_InteractionSymmetric ==
    (result.op = "evaluate" /\ Len(result.request.current_medications) = 1) =>
        LET input_data == result.request
            swapped == EngineInput(input_data.current_medications[1], input_data.dosage,
                                   input_data.patient_allergies,
                                   <<input_data.medication_name>>,
                                   input_data.drug_interactions, input_data.dose_ranges)
            severe == \E p \in MatchingPairs(input_data) :
                         Upper(input_data.drug_interactions[p[2]].severity) = <<"S","E","V","E","R","E">>
        IN  \A back \in evaluate(swapped) :
               /\ InteractionVerdicts(back) = InteractionVerdicts(Val(result.value))
               /\ severe => /\ Val(result.value).has_blocking_failure
                            /\ back.has_blocking_failure

\* aspirin evaluated for a patient on warfarin under the table of the tests,
\* whose record names warfarin first: the check fails and is blocking
C18_Witness ==
    /\ result.op = "evaluate"
    /\ result.request.medication_name = <<"A","s","p","i","r","i","n">>
    /\ result.request.current_medications = << <<"W","a","r","f","a","r","i","n">> >>
    /\ result.request.drug_interactions = INTERACTIONS
    /\ InteractionVerdicts(Val(result.value)) = << <<"FAIL", TRUE>> >>

\* C19: the dose-range check returns exactly one result, decided in this
\* order: WARNING, not blocking, when the dosage cannot be parsed; otherwise
\* PASS when no range exists for the drug name (lower-cased and trimmed);
\* otherwise FAIL, blocking, when the dose in mg (g * 1000, mcg, ug and the
\* micro sign followed by g * 0.001) is above the maximum; otherwise WARNING,
\* not blocking, when it is below the minimum; otherwise PASS.  A unit
\* written with the Greek letter mu is read as micrograms, or else as a
\* dosage that cannot be parsed
C19_DoseRangeOrder ==
    result.op = "evaluate" =>
        LET input_data == result.request
            dosage == input_data.dosage
            found == ChecksOf(Val(result.value), "DOSE_RANGE")
            starts == {i \in 1..Len(dosage) : DoseMatchAt(dosage, i) # None}
            m == Val(DoseMatchAt(dosage, CHOOSE i \in starts : \A j \in starts : i <= j))
            listed == DoseUnitLower(dosage, m) = DoseUnits[m.u].unit
            num == m.n * DoseUnits[m.u].mcg
            den == 1000 * Pow10(m.k)
            drug == Strip(Lower(input_data.medication_name))
            named == {i \in DOMAIN input_data.dose_ranges :
                         Strip(Lower(input_data.dose_ranges[i].medication_name)) = drug}
            range == input_data.dose_ranges[CHOOSE i \in named : \A j \in named : i <= j]
            verdict == IF starts = {} THEN <<"WARNING", FALSE>>
                       ELSE IF named = {} THEN <<"PASS", FALSE>>
                       ELSE IF num > range.max_dose_mg * den THEN <<"FAIL", TRUE>>
                       ELSE IF num < range.min_dose_mg * den THEN <<"WARNING", FALSE>>
                       ELSE <<"PASS", FALSE>>
        IN  /\ Len(found) = 1
            /\ \/ <<found[1].status, found[1].blocking>> = verdict
               \/ /\ starts # {}
                  /\ ~listed
                  /\ <<found[1].status, found[1].blocking>> = <<"WARNING", FALSE>>

\* C20: the duplicate-therapy check returns exactly one result, never
\* blocking: when some current medication equals the proposed drug
\* (lower-cased and trimmed) the result is the exact-duplicate WARNING naming
\* such a medication, whatever the order of the current medications and
\* whatever classes they share; otherwise, when some current medication
\* shares a drug class with the proposed drug, a WARNING naming that
\* medication and a shared class; otherwise PASS
C20_DuplicateTherapy ==
    result.op = "evaluate" =>
        LET input_data == result.request
            current == input_data.current_medications
            found == ChecksOf(Val(result.value), "DUPLICATE_THERAPY")
            drug == Strip(Lower(input_data.medication_name))
            shared(i) == {key \in ClassKeys : /\ drug \in ClassMembers(key)
                                              /\ Strip(Lower(current[i])) \in ClassMembers(key)}
            exact == {i \in DOMAIN current : Strip(Lower(current[i])) = drug}
            same_class == {i \in DOMAIN current : shared(i) # {}}
            taking(i) == <<"P","a","t","i","e","n","t"," ","a","l","r","e","a","d","y"," ","t","a","k","i","n","g"," ">> \o current[i]
        IN  /\ Len(found) = 1
            /\ ~found[1].blocking
            /\ IF exact # {}
               THEN /\ found[1].status = "WARNING"
                    /\ \E i \in exact :
                          /\ found[1].related_drug = Some(current[i])
                          /\ found[1].details = taking(i) \o <<" ", "EM_DASH">>
                                                   \o <<" ","d","u","p","l","i","c","a","t","e"," ","p","r","e","s","c","r","i","p","t","i","o","n">>
               ELSE IF same_class # {}
               THEN /\ found[1].status = "WARNING"
                    /\ \E i \in same_class : \E key \in shared(i) :
                          /\ found[1].related_drug = Some(current[i])
                          /\ found[1].details = taking(i) \o <<" ","(","s","a","m","e"," ","c","l","a","s","s",":"," ">> \o key
                                                   \o <<")", " ", "EM_DASH">>
                                                   \o <<" ","p","o","s","s","i","b","l","e"," ","d","u","p","l","i","c","a","t","e"," ","t","h","e","r","a","p","y">>
               ELSE found[1].status = "PASS"

(***************************************************************************)
(* The formulary service on its own: a drug name and a formulary are       *)
(* drawn, lookup_coverage or find_alternatives is applied                  *)
(***************************************************************************)
MaxRows == 3
MaxResults == 2

\* schemas.formulary_service.FormularyEntryData, copay in cents
FormularyEntryData(drug_name, generic_name, tier, copay, is_covered, requires_prior_auth) ==
    [drug_name |-> drug_name, generic_name |-> generic_name, plan_name |-> "DEMO_PLAN",
     tier |-> tier, copay |-> copay, is_covered |-> is_covered,
     requires_prior_auth |-> requires_prior_auth, notes |-> ""]

\* rows in the manner of the formulary tests: a generic and a brand of one
\* substance, a cheaper drug of a higher tier, a row that is not covered, and
\* a row whose tier and copay equal those of another
FormularyRows ==
    { FormularyEntryData(<<"M","e","t","f","o","r","m","i","n">>, <<"m","e","t","f","o","r","m","i","n">>, 1, 500, TRUE, FALSE),
      FormularyEntryData(<<"G","l","u","c","o","p","h","a","g","e">>, <<"M","e","t","f","o","r","m","i","n"," ">>, 3, 7500, TRUE, TRUE),
      FormularyEntryData(<<" ","l","i","s","i","n","o","p","r","i","l">>, <<"l","i","s","i","n","o","p","r","i","l">>, 2, 300, TRUE, FALSE),
      FormularyEntryData(<<"B","r","a","n","d","O","n","l","y","D","r","u","g">>, <<"b","r","a","n","d","o","n","l","y">>, 4, 15000, FALSE, TRUE),
      FormularyEntryData(<<"E","l","i","q","u","i","s">>, <<"a","p","i","x","a","b","a","n">>, 3, 7500, TRUE, FALSE) }


\* a drug name and a formulary are at hand, nothing has been looked up
InitFormulary ==
    /\ _prescriptions = <<>>
    /\ _receipts = <<>>
    /\ _GLOBAL_EVENT_BUFFER = <<>>
    /\ _buffer = <<>>
    /\ tasks = <<>>
    /\ supabase_up = TRUE
    /\ last_write = None
    /\ uuid_draws = 0
    /\ calls = 0
    /\ \E medication_name \in {<<" ","M","E","T","F","O","R","M","I","N"," ">>, <<"L","i","s","i","n","o","p","r","i","l">>, <<"b","r","a","n","d","o","n","l","y">>, <<"E","x","p","e","r","i","m","e","n","t","a","l","D","r","u","g">>},
          formulary \in UNION {[1..n -> FormularyRows] : n \in 0..MaxRows} :
          result = [op |-> "input",
                    request |-> [medication_name |-> medication_name, formulary |-> formulary],
                    ai |-> "", ai_call |-> None, trace |-> <<>>, exc |-> None, detail |-> <<>>,
                    value |-> None]

\* FormularyService.lookup_coverage applied with some generic name
LookupCoverage ==
    /\ result.op = "input"
    /\ \E generic_name \in {<<>>, <<"m","e","t","f","o","r","m","i","n">>, <<"B","r","a","n","d","O","n","l","y"," ">>} :
          result' = [result EXCEPT
                        !.op = "lookup_coverage",
                        !.request = [generic_name |-> generic_name] @@ result.request,
                        !.value = Some(lookup_coverage(result.request.medication_name,
                                           result.request.formulary, generic_name, ""))]
    /\ calls' = calls + 1
    /\ UNCHANGED <<_prescriptions, _receipts, _GLOBAL_EVENT_BUFFER, _buffer, tasks,
                   supabase_up, last_write, uuid_draws>>

\* FormularyService.find_alternatives applied with some max_results
FindAlternatives ==
    /\ result.op = "input"
    /\ \E max_results \in -1..MaxResults :
          result' = [result EXCEPT
                        !.op = "find_alternatives",
                        !.request = [max_results |-> max_results] @@ result.request,
                        !.value = Some(find_alternatives(result.request.medication_name,
                                           result.request.formulary, "", max_results))]
    /\ calls' = calls + 1
    /\ UNCHANGED <<_prescriptions, _receipts, _GLOBAL_EVENT_BUFFER, _buffer, tasks,
                   supabase_up, last_write, uuid_draws>>

NextFormulary ==
    \/ LookupCoverage
    \/ FindAlternatives

SpecFormulary == InitFormulary /\ [][NextFormulary]_vars

\* row i of the formulary matches the query of a lookup by its drug name
NameMatch(request, i) ==
    Strip(Lower(request.formulary[i].drug_name)) = Strip(Lower(request.medication_name))

\* row i matches the query of a lookup by its generic name
GenericMatch(request, i) ==
    /\ Strip(Lower(request.generic_name)) # <<>>
    /\ Strip(Lower(request.formulary[i].generic_name)) = Strip(Lower(request.generic_name))

\* C21: lookup_coverage classifies by the matched row: without a matching row
\* the result is UNKNOWN with no tier, no copay and is_covered false; otherwise
\* it is the classification of a matching row: NOT_COVERED without a copay
\* when the row is not covered, PRIOR_AUTH_REQUIRED with the row's tier and
\* copay when it is covered and requires prior auth, COVERED with the row's
\* tier and copay otherwise; is_covered is true exactly for COVERED and
\* PRIOR_AUTH_REQUIRED
C21_CoverageClasses ==
    result.op = "lookup_coverage" =>
        LET request == result.request
            c == Val(result.value)
            matching == {i \in DOMAIN request.formulary :
                            NameMatch(request, i) \/ GenericMatch(request, i)}
            ClassifiedBy(e) ==
                /\ c.tier = Some(e.tier)
                /\ c.status = (IF ~e.is_covered THEN "NOT_COVERED"
                               ELSE IF e.requires_prior_auth THEN "PRIOR_AUTH_REQUIRED"
                               ELSE "COVERED")
                /\ c.copay = (IF e.is_covered THEN Some(e.copay) ELSE None)
                /\ c.requires_prior_auth = e.requires_prior_auth
        IN  /\ matching = {} =>
                 /\ c.status = "UNKNOWN"
                 /\ c.tier = None
                 /\ c.copay = None
            /\ matching # {} => \E i \in matching : ClassifiedBy(request.formulary[i])
            /\ c.is_covered = (c.status \in {"COVERED", "PRIOR_AUTH_REQUIRED"})
            /\ c.medication_name = request.medication_name

\* a lookup by generic name that finds the brand row, covered with prior
\* auth: its tier and copay are retained
C21_Witness ==
    /\ result.op = "lookup_coverage"
    /\ Val(result.value).status = "PRIOR_AUTH_REQUIRED"
    /\ Val(result.value).copay = Some(7500)
    /\ Val(result.value).tier = Some(3)
    /\ Val(result.value).is_covered
    /\ \A i \in DOMAIN result.request.formulary : ~NameMatch(result.request, i)

\* C22: for max_results >= 0, find_alternatives returns at most max_results
\* entries, each taken from a row of its own that is covered and whose drug
\* name and generic name both differ (lower-cased, trimmed) from the queried
\* drug, in ascending (tier, copay) order, and they are the first max_results
\* of that order: as many as there are eligible rows up to max_results, and
\* no eligible row left out ranks strictly before a returned one
C22_FirstAlternatives ==
    (result.op = "find_alternatives" /\ result.request.max_results >= 0) =>
        LET request == result.request
            formulary == request.formulary
            alts == Val(result.value)
            queried == Strip(Lower(request.medication_name))
            eligible == {i \in DOMAIN formulary :
                            /\ formulary[i].is_covered
                            /\ Strip(Lower(formulary[i].drug_name)) # queried
                            /\ Strip(Lower(formulary[i].generic_name)) # queried}
            Before(a, b) == a.tier < b.tier \/ (a.tier = b.tier /\ a.copay < b.copay)
            TakenFrom(a, e) == /\ a.drug_name = e.drug_name
                               /\ a.generic_name = e.generic_name
                               /\ a.tier = e.tier
                               /\ a.copay = e.copay
        IN  /\ Len(alts) <= request.max_results
            /\ Len(alts) = request.max_results \/ Len(alts) = Cardinality(eligible)
            /\ \A k \in DOMAIN alts : \A l \in DOMAIN alts : k < l => ~Before(alts[l], alts[k])
            /\ \E rows \in [DOMAIN alts -> eligible] :
                  /\ \A k \in DOMAIN alts : \A l \in DOMAIN alts : k # l => rows[k] # rows[l]
                  /\ \A k \in DOMAIN alts : TakenFrom(alts[k], formulary[rows[k]])
                  /\ \A i \in eligible :
                        (\A k \in DOMAIN alts : rows[k] # i) =>
                            \A k \in DOMAIN alts : ~Before(formulary[i], alts[k])

\* two alternatives asked for of a formulary of three eligible rows, one of
\* them of tier 3: the rows of tier 1 and tier 2 come back, in that order
C22_Witness ==
    /\ result.op = "find_alternatives"
    /\ result.request.max_results = 2
    /\ Len(result.request.formulary) = 3
    /\ \E i \in DOMAIN result.request.formulary :
          result.request.formulary[i].tier = 3 /\ ~result.request.formulary[i].requires_prior_auth
    /\ Len(Val(result.value)) = 2
    /\ Val(result.value)[1].tier = 1
    /\ Val(result.value)[2].tier = 2

\* C23: the list find_alternatives returns is sorted by copay ascending: the
\* copay of each alternative is at most the copay of the one that follows it
C23_SortedByCopay ==
    result.op = "find_alternatives" =>
        LET alts == Val(result.value)
        IN  \A k \in 1..(Len(alts) - 1) : alts[k].copay <= alts[k + 1].copay

\* C28: lookup_coverage prefers a match by drug name over a match by generic
\* name: when some row's drug name equals the queried name (lower-cased,
\* trimmed) the result comes from the first such row, whatever rows stand
\* before it; when none does, it comes from the first row that matches by
\* generic name
C28_NameBeforeGeneric ==
    result.op = "lookup_coverage" =>
        LET request == result.request
            c == Val(result.value)
            by_name == {i \in DOMAIN request.formulary : NameMatch(request, i)}
            by_generic == {i \in DOMAIN request.formulary : GenericMatch(request, i)}
            preferred == IF by_name # {} THEN by_name ELSE by_generic
            e == request.formulary[CHOOSE i \in preferred : \A j \in preferred : i <= j]
        IN  preferred # {} =>
                /\ c.status # "UNKNOWN"
                /\ c.tier = Some(e.tier)
                /\ c.requires_prior_auth = e.requires_prior_auth
                /\ c.is_covered = e.is_covered

\* C27: evaluate returns its checks in this order, whatever the earlier ones
\* found: one ALLERGY check; then the DRUG_INTERACTION checks, one per
\* matching pair of a current medication and a record in the order of the
\* medications and then of the records, or one PASS when no pair matches;
\* then one DOSE_RANGE check; then one DUPLICATE_THERAPY check
C27_FourChecksInOrder ==
    result.op = "evaluate" =>
        LET input_data == result.request
            checks == Val(result.value).checks
            pairs == MatchingPairs(input_data)
            n == IF pairs = {} THEN 1 ELSE Cardinality(pairs)
            rank(p) == 1 + Cardinality({q \in pairs :
                                           q[1] < p[1] \/ (q[1] = p[1] /\ q[2] < p[2])})
        IN  /\ Len(checks) = n + 3
            /\ checks[1].check_type = "ALLERGY"
            /\ \A k \in 2..(n + 1) : checks[k].check_type = "DRUG_INTERACTION"
            /\ pairs = {} => checks[2].status = "PASS"
            /\ \A p \in pairs :
                  /\ checks[1 + rank(p)].status # "PASS"
                  /\ checks[1 + rank(p)].related_drug = Some(input_data.current_medications[p[1]])
                  /\ checks[1 + rank(p)].severity = Some(Upper(input_data.drug_interactions[p[2]].severity))
            /\ checks[n + 2].check_type = "DOSE_RANGE"
            /\ checks[n + 3].check_type = "DUPLICATE_THERAPY"

\* two records match and the first of the interaction checks is blocking: the
\* second interaction check, the dose check and the duplicate check follow it
C27_Witness ==
    /\ result.op = "evaluate"
    /\ Len(Val(result.value).checks) = 5
    /\ Val(result.value).checks[2].blocking
    /\ Val(result.value).checks[3].check_type = "DRUG_INTERACTION"
    /\ Val(result.value).checks[3].status = "WARNING"
    /\ Val(result.value).checks[4].check_type = "DOSE_RANGE"
    /\ Val(result.value).checks[5].check_type = "DUPLICATE_THERAPY"

\* C30: in every output of evaluate a check is blocking exactly when its
\* status is FAIL, so overall_status is BLOCKED exactly when some check has
\* status FAIL
C30_BlockingIffFail ==
    result.op = "evaluate" =>
        LET out == Val(result.value)
        IN  /\ \A i \in DOMAIN out.checks :
                  out.checks[i].blocking = (out.checks[i].status = "FAIL")
            /\ (out.overall_status = "BLOCKED") =
                  (\E i \in DOMAIN out.checks : out.checks[i].status = "FAIL")

\* an output with a blocking FAIL of the dose check beside a check of status
\* PASS
C30_Witness ==
    /\ result.op = "evaluate"
    /\ Val(result.value).overall_status = "BLOCKED"
    /\ \E i \in DOMAIN Val(result.value).checks :
          /\ Val(result.value).checks[i].check_type = "DOSE_RANGE"
          /\ Val(result.value).checks[i].status = "FAIL"
          /\ Val(result.value).checks[i].blocking
    /\ \E i \in DOMAIN Val(result.value).checks : Val(result.value).checks[i].status = "PASS"

(***************************************************************************)
(* The store under every operation of the service                          *)
(***************************************************************************)
\* the service with its lookups and the standalone validation
NextStore ==
    \/ NextLookups
    \/ ValidatePrescriptions

SpecStore == Init /\ [][NextStore]_vars

BlockedEventsOf(request, gem_item, out) ==
    LET kept == SelectSeq(out.checks, LAMBDA c : c.blocking)
    IN  [i \in DOMAIN kept |->
            [event_type |-> "OPTION_BLOCKED",
             event_data |-> [visitId |-> request.visit_id,
                             medication |-> gem_item.medication,
                             reason |-> kept[i].details]]]

\* the outputs of the rules engine for every request and AI candidate
CandidateOutputs ==
    [request \in Requests |->
        [gem_item \in UNION {{r.recommendations[i] : i \in DOMAIN r.recommendations} :
                                r \in Responses} |->
            evaluate(RulesEngineInput(request, gem_item, interactions, dose_ranges))]]

MaxItems == 3

\* one stored item: the primary drug, no alternatives, the warnings of step 5
ReceiptItem(drug_name, tier, estimated_copay, is_covered, requires_prior_auth, warnings) ==
    [primary |->
        [drug_name |-> drug_name, generic_name |-> drug_name, dosage |-> <<"5","0","0","m","g">>,
         frequency |-> "daily", duration |-> "30 days", route |-> "oral",
         rationale |-> "", tier |-> tier, estimated_copay |-> estimated_copay,
         is_covered |-> is_covered, requires_prior_auth |-> requires_prior_auth],
     alternatives |-> <<>>,
     warnings |-> warnings]

\* items as generate_recommendations stores them: a clean covered one, one
\* with a moderate interaction that needs prior auth, one that is not covered
\* and carries an allergy warning naming an interaction and a dose warning,
\* one whose warnings carry none of the three keywords, and a covered one
\* without a copay whose interaction partner has "allerg" in its name
ReceiptItems ==
    { ReceiptItem(<<"M","e","t","f","o","r","m","i","n">>, Some(1), Some(500), TRUE, FALSE, <<>>),
      ReceiptItem(<<"E","l","i","q","u","i","s">>, Some(3), Some(7500), TRUE, TRUE,
                  << <<"M","O","D","E","R","A","T","E"," ","i","n","t","e","r","a","c","t","i","o","n",":"," ","E","l","i","q","u","i","s"," ","+"," ","A","s","p","i","r","i","n"," ">> \o <<"EM_DASH">> \o <<" ","b","l","e","e","d","i","n","g">> >>),
      ReceiptItem(<<"A","m","o","x","i","c","i","l","l","i","n">>, None, None, FALSE, FALSE,
                  << <<"P","a","t","i","e","n","t"," ","i","s"," ","a","l","l","e","r","g","i","c"," ","t","o"," ","'","I","n","t","e","r","a","c","t","i","o","n","-","p","r","o","n","e"," ","p","e","n","i","c","i","l","l","i","n","'",";"," ","'","A","m","o","x","i","c","i","l","l","i","n","'"," ","i","s"," ","c","o","n","t","r","a","i","n","d","i","c","a","t","e","d">>,
                     <<"D","o","s","e"," ","1","0","0","m","g"," ","i","s"," ","b","e","l","o","w"," ","m","i","n","i","m","u","m"," ","2","5","0","m","g"," ","f","o","r"," ","A","m","o","x","i","c","i","l","l","i","n"," ">> \o <<"EM_DASH">> \o <<" ","m","a","y"," ","b","e"," ","s","u","b","-","t","h","e","r","a","p","e","u","t","i","c">> >>),
      ReceiptItem(<<"A","s","p","i","r","i","n">>, Some(1), Some(0), TRUE, FALSE,
                  << <<"C","o","u","l","d"," ","n","o","t"," ","p","a","r","s","e"," ","d","o","s","a","g","e"," ","'","t","w","o"," ","t","a","b","l","e","t","s","'"," ">> \o <<"EM_DASH">> \o <<" ","m","a","n","u","a","l"," ","r","e","v","i","e","w"," ","r","e","c","o","m","m","e","n","d","e","d">>,
                     <<"P","a","t","i","e","n","t"," ","a","l","r","e","a","d","y"," ","t","a","k","i","n","g"," ","A","s","p","i","r","i","n"," ">> \o <<"EM_DASH">> \o <<" ","d","u","p","l","i","c","a","t","e"," ","p","r","e","s","c","r","i","p","t","i","o","n">> >>),
      ReceiptItem(<<"W","a","r","f","a","r","i","n">>, Some(2), None, TRUE, TRUE,
                  << <<"M","I","L","D"," ","i","n","t","e","r","a","c","t","i","o","n",":"," ","W","a","r","f","a","r","i","n"," ","+"," ","A","l","l","e","r","g","e","x"," ">> \o <<"EM_DASH">> \o <<" ","D","O","S","E"," ","a","d","j","u","s","t","m","e","n","t">> >>) }

\* a prescription with some items is in the store, no receipt has been built
InitReceipt ==
    /\ _receipts = <<>>
    /\ _GLOBAL_EVENT_BUFFER = <<>>
    /\ _buffer = <<>>
    /\ tasks = <<>>
    /\ supabase_up = TRUE
    /\ last_write = None
    /\ uuid_draws = 0
    /\ calls = 0
    /\ \E items \in UNION {[1..n -> ReceiptItems] : n \in 0..MaxItems} :
          /\ _prescriptions = [id \in {uuid4(0)} |->
                                 [id |-> id, visit_id |-> "visit-1", patient_id |-> "patient-1",
                                  status |-> "approved", items |-> items,
                                  rules_results |-> [i \in DOMAIN items |->
                                                        [medication |-> items[i].primary.drug_name,
                                                         blocked |-> FALSE]],
                                  created_at |-> 0, approved_at |-> Some(0),
                                  rejection_reason |-> None]]
          /\ result = [op |-> "input",
                       request |-> [prescription_id |-> uuid4(0)],
                       ai |-> "", ai_call |-> None, trace |-> <<>>, exc |-> None, detail |-> <<>>,
                       value |-> None]

\* PrescriptionService._build_receipt applied to the stored prescription
BuildReceipt ==
    /\ result.op = "input"
    /\ result' = [result EXCEPT
                     !.op = "_build_receipt",
                     !.value = Some(_build_receipt(result.request.prescription_id,
                                        _prescriptions[result.request.prescription_id],
                                        uuid4(uuid_draws + 1), uuid4(uuid_draws + 2), 0))]
    /\ uuid_draws' = uuid_draws + 2
    /\ calls' = calls + 1
    /\ UNCHANGED <<_prescriptions, _receipts, _GLOBAL_EVENT_BUFFER, _buffer, tasks,
                   supabase_up, last_write>>

NextReceipt == BuildReceipt

SpecReceipt == InitReceipt /\ [][NextReceipt]_vars

\* C29: the receipt of a prescription has one drug entry per stored item in
\* item order; its total copay is the sum of the copays that are not None;
\* covered and uncovered counts add up to the number of items; the prior-auth
\* list names exactly the drugs of the items requiring prior auth; every
\* warning is in the first bucket whose keyword ("allerg", "interaction",
\* "dose") its lower-cased text contains and in no bucket otherwise; and
\* all_passed holds exactly when the three buckets are empty, so that items
\* without warnings give all_passed
C29_ReceiptOfItems ==
    result.op = "_build_receipt" =>
        LET items == _prescriptions[result.request.prescription_id].items
            r == Val(result.value)
            all == Flatten([i \in DOMAIN items |-> items[i].warnings])
            has(w, k) == \E i \in 1..Len(w) : i + Len(k) - 1 <= Len(w)
                             /\ \A j \in 1..Len(k) : LowerChar(w[i + j - 1]) = k[j]
            a(w) == has(w, <<"a","l","l","e","r","g">>)
            x(w) == has(w, <<"i","n","t","e","r","a","c","t","i","o","n">>)
            d(w) == has(w, <<"d","o","s","e">>)
        IN  /\ Len(r.drugs) = Len(items)
            /\ \A i \in DOMAIN items :
                  /\ r.drugs[i].drug_name = items[i].primary.drug_name
                  /\ r.drugs[i].dosage = items[i].primary.dosage
                  /\ r.drugs[i].copay = items[i].primary.estimated_copay
                  /\ r.drugs[i].is_covered = items[i].primary.is_covered
                  /\ r.drugs[i].requires_prior_auth = items[i].primary.requires_prior_auth
            /\ r.coverage.total_copay
                  = SumOf([i \in DOMAIN items |->
                              IF items[i].primary.estimated_copay = None THEN 0
                              ELSE Val(items[i].primary.estimated_copay)])
            /\ r.coverage.items_covered + r.coverage.items_not_covered = Len(items)
            /\ r.coverage.items_covered
                  = Cardinality({i \in DOMAIN items : items[i].primary.is_covered})
            /\ r.coverage.prior_auth_required
                  = Flatten([i \in DOMAIN items |->
                                IF items[i].primary.requires_prior_auth
                                THEN <<items[i].primary.drug_name>> ELSE <<>>])
            /\ r.safety.allergy_flags = SelectSeq(all, a)
            /\ r.safety.interaction_flags = SelectSeq(all, LAMBDA w : ~a(w) /\ x(w))
            /\ r.safety.dose_range_flags = SelectSeq(all, LAMBDA w : ~a(w) /\ ~x(w) /\ d(w))
            /\ r.safety.all_passed
                  <=> (\A i \in DOMAIN all : ~a(all[i]) /\ ~x(all[i]) /\ ~d(all[i]))
            /\ (all = <<>>) => r.safety.all_passed

\* a receipt of three items has been built: one bucket each holds a warning,
\* a warning with "allerg" and "interaction" went to the allergy bucket only,
\* a warning without a keyword went to none, one copay is None, one item
\* is not covered and one requires prior auth
C29_Witness ==
    /\ result.op = "_build_receipt"
    /\ Len(Val(result.value).drugs) = 3
    /\ Len(Val(result.value).safety.allergy_flags) = 1
    /\ Len(Val(result.value).safety.interaction_flags) = 1
    /\ Len(Val(result.value).safety.dose_range_flags) = 1
    /\ Len(Val(result.value).safety.checks) = 5
    /\ ~Val(result.value).safety.all_passed
    /\ Val(result.value).coverage.total_copay = 7500
    /\ Val(result.value).coverage.items_not_covered = 1
    /\ Val(result.value).coverage.prior_auth_required = << <<"E","l","i","q","u","i","s">> >>

(***************************************************************************)
(* Requests on one prescription in flight together: the handlers are       *)
(* coroutines of one event loop, which runs one of them until it awaits or *)
(* ends before it runs another                                             *)
(***************************************************************************)
MaxCoroutines == 2

\* the calls the router may have accepted for the prescription stored first
ConcurrentCalls ==
    { [op |-> "approve_prescription",
       request |-> [prescription_id |-> 1, confirmed_safety_review |-> TRUE]],
      [op |-> "reject_prescription",
       request |-> [prescription_id |-> 1, reason |-> "Patient declined"]],
      [op |-> "reject_prescription",
       request |-> [prescription_id |-> 1, reason |-> "Out of stock"]] }

\* the positions of approve_prescription and reject_prescription at which the
\* coroutine awaits and the loop may run another: their bodies hold no await
AwaitPointsEveryStatement ==
    {"set", "save_prescription", "_build_receipt", "save_receipt", "emit"}

AwaitPoints == {}

\* the statement at the position of coroutine i of s = [prescriptions,
\* receipts, global, buffer, tasks, uuids, coros]; rx is the dict object held
\* by the store, so that the assignments to rx are assignments to the store
CoroutineStep(s, i, up, now) ==
    LET c == s.coros[i]
        id == c.request.prescription_id
        approving == c.op = "approve_prescription"
        raise(e) == [s EXCEPT !.coros[i].pc = "done", !.coros[i].exc = Some(e)]
    IN  CASE c.pc = "get" ->
                IF approving /\ ~c.request.confirmed_safety_review
                THEN raise(ValidationError(0, {"field", "message", "operation"}))
                ELSE IF id \notin DOMAIN s.prescriptions
                THEN raise("ResourceNotFoundError")
                ELSE IF approving /\ BlockedReason(s.prescriptions[id]) # None
                THEN raise("SafetyBlockError")
                ELSE [s EXCEPT !.coros[i].pc = "set"]
          [] c.pc = "set" ->
                [s EXCEPT !.prescriptions[id] =
                              IF approving
                              THEN [@ EXCEPT !.status = "approved", !.approved_at = Some(now)]
                              ELSE [@ EXCEPT !.status = "rejected",
                                             !.rejection_reason = Some(c.request.reason)],
                          !.coros[i].pc = "save_prescription"]
          [] c.pc = "save_prescription" ->
                [s EXCEPT !.coros[i].pc = IF approving THEN "_build_receipt" ELSE "emit"]
          [] c.pc = "_build_receipt" ->
                [s EXCEPT !.coros[i].receipt =
                              Some(_build_receipt(id, s.prescriptions[id],
                                                  uuid4(s.uuids + 1), uuid4(s.uuids), now)),
                          !.uuids = @ + 2,
                          !.coros[i].pc = "save_receipt"]
          [] c.pc = "save_receipt" ->
                [s EXCEPT !.receipts = save_receipt(@, id, Val(c.receipt)),
                          !.coros[i].pc = "emit"]
          [] c.pc = "emit" ->
                LET an == emit([buffer |-> <<>>, global |-> s.global, tasks |-> s.tasks,
                                up |-> up, raised |-> None],
                               IF approving THEN "OPTION_APPROVED" ELSE "OPTION_REJECTED",
                               IF approving THEN ApprovedEvent(id, Val(c.receipt))
                               ELSE RejectedEvent(id, c.request.reason),
                               now)
                IN  [s EXCEPT !.global = an.global, !.buffer = an.buffer,
                              !.tasks = an.tasks,
                              !.coros[i].pc = "done", !.coros[i].exc = an.raised]

RECURSIVE RunToAwait(_, _, _, _)
\* coroutine i runs from its position until it awaits or ends
RunToAwait(s, i, up, now) ==
    LET t == CoroutineStep(s, i, up, now)
    IN  IF t.coros[i].pc = "done" \/ t.coros[i].pc \in AwaitPoints THEN t
        ELSE RunToAwait(t, i, up, now)

\* generate_recommendations has stored a prescription, and the router has
\* accepted some calls for it that have not begun
InitConcurrent ==
    /\ supabase_up = TRUE
    /\ last_write = None
    /\ calls = 1
    /\ \E o \in {p \in GenerateOutcomes : p.exc = None},
          n \in 1..MaxCoroutines :
          \E accepted \in [1..n -> ConcurrentCalls] :
             LET out == generate_recommendations(<<>>, <<>>,
                            [buffer |-> <<>>, global |-> <<>>, tasks |-> <<>>,
                             up |-> TRUE, raised |-> None], 0, o, 1)
             IN  /\ _prescriptions = out.prescriptions
                 /\ _receipts = out.receipts
                 /\ _GLOBAL_EVENT_BUFFER = out.an.global
                 /\ _buffer = out.an.buffer
                 /\ tasks = out.an.tasks
                 /\ uuid_draws = out.uuids
                 /\ result = [op |-> "concurrent_requests",
                              request |-> [accepted |-> accepted,
                                           prescriptions |-> out.prescriptions,
                                           receipts |-> out.receipts,
                                           uuids |-> out.uuids],
                              ai |-> "", ai_call |-> None, trace |-> <<>>, exc |-> None,
                              detail |-> <<>>,
                              value |-> Some([i \in 1..n |->
                                                 [op |-> accepted[i].op,
                                                  request |-> accepted[i].request,
                                                  pc |-> "get", receipt |-> None,
                                                  exc |-> None]])]

\* the loop runs one of the coroutines that have not ended, to its next await
\* or to its end; the clock value of coroutine i is 1 + i
RunCoroutine ==
    /\ result.op = "concurrent_requests"
    /\ \E i \in DOMAIN Val(result.value) :
          /\ Val(result.value)[i].pc # "done"
          /\ LET t == RunToAwait([prescriptions |-> _prescriptions, receipts |-> _receipts,
                                  global |-> _GLOBAL_EVENT_BUFFER, buffer |-> _buffer,
                                  tasks |-> tasks, uuids |-> uuid_draws,
                                  coros |-> Val(result.value)], i, supabase_up, 1 + i)
             IN  /\ _prescriptions' = t.prescriptions
                 /\ _receipts' = t.receipts
                 /\ _GLOBAL_EVENT_BUFFER' = t.global
                 /\ _buffer' = t.buffer
                 /\ tasks' = t.tasks
                 /\ uuid_draws' = t.uuids
                 /\ calls' = IF t.coros[i].pc = "done" THEN calls + 1 ELSE calls
                 /\ result' = [result EXCEPT !.value = Some(t.coros)]
    /\ UNCHANGED <<supabase_up, last_write>>

NextConcurrent == RunCoroutine

SpecConcurrent == InitConcurrent /\ [][NextConcurrent]_vars

RECURSIVE SerialRun(_, _, _)
\* the store after the accepted calls named by order have run one after the
\* other from the store o, each one whole
SerialRun(o, accepted, order) ==
    IF order = <<>> THEN o
    ELSE LET i == order[1]
             an == [buffer |-> <<>>, global |-> <<>>, tasks |-> <<>>,
                    up |-> TRUE, raised |-> None]
         IN  SerialRun(IF accepted[i].op = "approve_prescription"
                       THEN approve_prescription(o.prescriptions, o.receipts, an, o.uuids,
                                                 accepted[i].request, 1 + i)
                       ELSE reject_prescription(o.prescriptions, o.receipts, an, o.uuids,
                                                accepted[i].request, 1 + i),
                       accepted, Tail(order))

\* C24: once all the calls accepted together for one prescription have ended,
\* the prescription and its receipt are what running the same calls one after
\* the other in some order leaves: no write of a call is lost to another
C24_SerialOutcome ==
    (/\ result.op = "concurrent_requests"
     /\ \A i \in DOMAIN Val(result.value) : Val(result.value)[i].pc = "done")
    => LET n == Len(result.request.accepted)
       IN  \E order \in {f \in [1..n -> 1..n] : \A i, j \in 1..n : f[i] = f[j] => i = j} :
              LET o == SerialRun(result.request, result.request.accepted, order)
              IN  /\ o.prescriptions = _prescriptions
                  /\ o.receipts = _receipts

\* an approval and a rejection accepted together have both ended without an
\* exception, the rejection last: the prescription is rejected with its
\* reason, keeps the time of its approval, and has its receipt
C24_Witness ==
    /\ result.op = "concurrent_requests"
    /\ Len(Val(result.value)) = 2
    /\ \A i \in DOMAIN Val(result.value) :
          Val(result.value)[i].pc = "done" /\ Val(result.value)[i].exc = None
    /\ Val(result.value)[1].op = "approve_prescription"
    /\ Val(result.value)[2].op = "reject_prescription"
    /\ _prescriptions[1].status = "rejected"
    /\ _prescriptions[1].rejection_reason = Some("Out of stock")
    /\ _prescriptions[1].approved_at = Some(2)
    /\ 1 \in DOMAIN _receipts

====
